---- MODULE Spec2Model ----
(***************************************************************************)
(* Solar Defense: a model of the game's simulation core.                   *)
(*                                                                         *)
(* The repository contains three generations of the game.  This module     *)
(* models:                                                                 *)
(*   - the modular ES6 game (main.js, starbase.js, projectile.js,          *)
(*     economy.js, config.js), specification Spec;                         *)
(*   - the projectile system on its own, specification SpecProj;           *)
(*   - the entity-class game (second Game class of game.js, entities.js),  *)
(*     specification SpecEntity;                                           *)
(*   - the removal operations (projectile.js, enemy.js, platform.js),      *)
(*     specification SpecRemove.                                           *)
(*                                                                         *)
(* Geometry.  The world is projected on one line through the planet        *)
(* centre (coordinate 0): every position is an integer number of cells on  *)
(* that line, a unit direction is -1, 0 or +1.  Vector operations of       *)
(* THREE.Vector3 are computed as the code computes them, restricted to     *)
(* that line.                                                              *)
(*                                                                         *)
(* Units.  The frame clamp of 0.1 s is MaxDelta time units, so a second is *)
(* 10 * MaxDelta time units.  A world unit is 10 * MaxDelta cells, so a    *)
(* speed of v world units per second is v cells per time unit.             *)
(***************************************************************************)
EXTENDS Integers, Sequences, FiniteSets, TLC

\* ------------------------------------------------------------------ bounds
\* Time units in the 0.1 s frame clamp.
MaxDelta == 1
\* Largest raw clock difference between two frames, in time units, beyond
\* the clamp.
ExtraRawDelta == 1
\* Enemies taken from each group of a wave configuration.
MaxGroupCount == 1
\* Number of startGame calls explored in one behaviour.
MaxGames == 2
\* Length of the flank path on the line, in world units.
FlankLength == 15
\* Enemies in a registry of the projectile specification.
MaxProjEnemies == 2
\* Projectiles created in a behaviour of the projectile specification.
MaxShots == 2
\* Enemies in a registry of the targeting specification.
MaxTargets == 3
\* Entries of a level's enemy queue in the entity-class game.
LevelEnemies == 2
\* Last frame timestamp of the entity-class loop, in time units.
MaxNow == 40
\* Enemies constructed in a behaviour of the prototype game.
MaxProtoEnemies == 2
\* Projectiles and platforms created in the removal specification.
MaxRemObjects == 3

\* --------------------------------------------------------------- constants
STARTING_CREDITS == 100
STARBASE_DAMAGE == 25
STARBASE_FIRE_RATE == 1
STARBASE_ROTATION_SPEED == 2
PROJECTILE_SPEED == 50
STARBASE_RANGE == 100
SPAWN_DISTANCE == 80
MAX_DISTANCE == 150
WAVE_TRANSITION_DELAY == 3
totalWaves == 5
BARREL_TIP == 2
CANNON_RANGE == 100
STARBASE_ORBIT_RADIUS == 50

Second == 10 * MaxDelta
Unit == 10 * MaxDelta

Abs(x) == IF x < 0 THEN -x ELSE x
Sign(x) == IF x < 0 THEN -1 ELSE IF x > 0 THEN 1 ELSE 0
Min(a, b) == IF a < b THEN a ELSE b
Max(a, b) == IF a > b THEN a ELSE b
\* Math.round for a non-negative rational n / d
Round(n, d) == (2 * n + d) \div (2 * d)

GameState == [MENU |-> "menu", PLAYING |-> "playing", PAUSED |-> "paused",
              WAVE_COMPLETE |-> "wave_complete", VICTORY |-> "victory",
              DEFEAT |-> "defeat"]

\* config.js: CONFIG.enemies; size is in hundredths of a world unit
EnemyConfig ==
  [basic   |-> [health |-> 100, speed |-> 5,  armor |-> 0,  size |-> 100],
   fast    |-> [health |-> 60,  speed |-> 10, armor |-> 0,  size |-> 70],
   armored |-> [health |-> 200, speed |-> 3,  armor |-> 10, size |-> 150]]

EnemyTypes == DOMAIN EnemyConfig

creditsPerKill == [basic |-> 10, fast |-> 15, armored |-> 25]
pointsPerKill == [basic |-> 100, fast |-> 150, armored |-> 250]

\* config.js: CONFIG.waves; spawnDelay is in tenths of a second
Waves ==
  [w \in 1..totalWaves |->
     CASE w = 1 -> [enemies |-> <<[type |-> "basic", count |-> 5, spawnDelay |-> 20]>>,
                    bonusCredits |-> 50]
       [] w = 2 -> [enemies |-> <<[type |-> "basic", count |-> 8, spawnDelay |-> 15]>>,
                    bonusCredits |-> 75]
       [] w = 3 -> [enemies |-> <<[type |-> "basic", count |-> 5, spawnDelay |-> 20],
                                  [type |-> "fast", count |-> 3, spawnDelay |-> 10]>>,
                    bonusCredits |-> 100]
       [] w = 4 -> [enemies |-> <<[type |-> "basic", count |-> 8, spawnDelay |-> 15],
                                  [type |-> "fast", count |-> 5, spawnDelay |-> 10]>>,
                    bonusCredits |-> 125]
       [] w = 5 -> [enemies |-> <<[type |-> "basic", count |-> 5, spawnDelay |-> 15],
                                  [type |-> "fast", count |-> 3, spawnDelay |-> 10],
                                  [type |-> "armored", count |-> 2, spawnDelay |-> 30]>>,
                    bonusCredits |-> 150]]

\* getWaveConfig: the configured wave (waves 1..totalWaves always exist),
\* with each group cut down to MaxGroupCount enemies
getWaveConfig(waveNumber) ==
  LET cfg == Waves[waveNumber] IN
  [enemies |-> [g \in DOMAIN cfg.enemies |->
                  [cfg.enemies[g] EXCEPT !.count = Min(@, MaxGroupCount)]],
   bonusCredits |-> cfg.bonusCredits]

\* path.js: the paths, projected on the line: a path runs straight to the
\* planet centre, the default path from spawnDistance on one side, the flank
\* path from FlankLength on the other side
PathStart == [default |-> SPAWN_DISTANCE * Unit,
              leftFlank |-> -(FlankLength * Unit)]
PathNames == DOMAIN PathStart
totalLength(pathName) == Abs(PathStart[pathName])
\* getPositionOnPath at arc length d (progress = d / totalLength, clamped)
getPositionOnPath(pathName, d) ==
  LET c == Max(0, Min(totalLength(pathName), d)) IN
  PathStart[pathName] - Sign(PathStart[pathName]) * c

\* ------------------------------------------------------------------- state
VARIABLES
  currentState, currentWave, enemiesSpawnedThisWave, enemiesToSpawnThisWave,
  spawnTimer, waveEnemyQueue, waveTransitionTimer, clock, placementActive,
  enemies, projectiles, nextId,
  timeSinceLastShot, currentTarget, turretRotation,
  credits, score, totalKills, shotsFired, shotsHit,
  games, tick, waveLog, simSinceShot, hitLog,
  game, game2d, platforms, query, lastRemoval

mainVars == <<currentState, currentWave, enemiesSpawnedThisWave,
              enemiesToSpawnThisWave, spawnTimer, waveEnemyQueue,
              waveTransitionTimer, clock, placementActive>>
entityVars == <<enemies, projectiles, nextId>>
starbaseVars == <<timeSinceLastShot, currentTarget, turretRotation>>
economyVars == <<credits, score, totalKills, shotsFired, shotsHit>>
historyVars == <<games, tick, waveLog, simSinceShot, hitLog>>
otherVars == <<game, game2d, platforms, query, lastRemoval>>
vars == <<mainVars, entityVars, starbaseVars, economyVars, historyVars,
         otherVars>>

\* ------------------------------------------------- THREE.Vector3 on the line
distanceTo(a, b) == Abs(a - b)
\* Vector3.normalize divides by (length || 1): the zero vector stays zero
normalize(v) == Sign(v)

\* ----------------------------------------------------------- enemy module
\* (enemy.js of the modular game)
NoEnemy == 0

EnemyById(es, id) == es[CHOOSE i \in DOMAIN es : es[i].id = id]

newEnemy(id, type, pathName) ==
  [id |-> id, type |-> type, path |-> pathName, progress |-> 0,
   pos |-> getPositionOnPath(pathName, 0),
   health |-> EnemyConfig[type].health, alive |-> TRUE]

spawnEnemy(es, id, type, pathName) == Append(es, newEnemy(id, type, pathName))

advanceEnemy(e, deltaTime) ==
  LET d == Min(totalLength(e.path),
               e.progress + EnemyConfig[e.type].speed * deltaTime) IN
  [e EXCEPT !.progress = d, !.pos = getPositionOnPath(e.path, d)]

atPathEnd(e) == e.progress >= totalLength(e.path)

\* updateEnemies: advance every alive enemy; an enemy at the end of its path
\* has reached the planet and is removed
updateEnemies(es, deltaTime) ==
  LET moved == [i \in DOMAIN es |->
                  IF es[i].alive THEN advanceEnemy(es[i], deltaTime) ELSE es[i]]
  IN [enemies |-> SelectSeq(moved, LAMBDA e : ~(e.alive /\ atPathEnd(e))),
      reachedPlanet |-> \E i \in DOMAIN moved : moved[i].alive /\ atPathEnd(moved[i])]

effectiveDamage(amount, armor) == Max(1, amount - armor)

\* damageEnemy: apply armour, destroy (and unregister) the enemy at health <= 0
damageEnemy(es, id, amount) ==
  LET e == EnemyById(es, id)
      h == e.health - effectiveDamage(amount, EnemyConfig[e.type].armor)
  IN IF h <= 0
       THEN [enemies |-> SelectSeq(es, LAMBDA x : x.id # id), destroyed |-> TRUE]
       ELSE [enemies |-> [i \in DOMAIN es |->
                            IF es[i].id = id THEN [es[i] EXCEPT !.health = h]
                            ELSE es[i]],
             destroyed |-> FALSE]

getEnemyCount(es) == Len(SelectSeq(es, LAMBDA e : e.alive))

RECURSIVE getClosestEnemyLoop(_, _, _, _, _)
getClosestEnemyLoop(es, i, position, closest, closestDistance) ==
  IF i > Len(es) THEN closest
  ELSE IF ~es[i].alive
    THEN getClosestEnemyLoop(es, i + 1, position, closest, closestDistance)
  ELSE LET distance == distanceTo(position, es[i].pos) IN
    IF distance < closestDistance
      THEN getClosestEnemyLoop(es, i + 1, position, es[i].id, distance)
      ELSE getClosestEnemyLoop(es, i + 1, position, closest, closestDistance)

\* getClosestEnemy: the tracked best distance starts at maxRange
getClosestEnemy(es, position, maxRange) ==
  getClosestEnemyLoop(es, 1, position, NoEnemy, maxRange)

\* -------------------------------------------------------------- starbase.js
StarbasePosition == 0
AIM_TOLERANCE == 5

fireInterval == Second \div STARBASE_FIRE_RATE

RECURSIVE wrapAngle(_)
wrapAngle(diff) ==
  IF diff > 180 THEN wrapAngle(diff - 360)
  ELSE IF diff < -180 THEN wrapAngle(diff + 360)
  ELSE diff

\* Math.atan2(directionToTarget.x, directionToTarget.z) in degrees, for a
\* target on the line (z = 0)
targetAngleOf(dx) == IF dx > 0 THEN 90 ELSE IF dx < 0 THEN -90 ELSE 0

\* 1 - Math.exp(-x) in thousandths, x given in thousandths (x <= 1)
dampFactor(x) ==
  LET x2 == (x * x) \div 1000
      x3 == (x2 * x) \div 1000
      x4 == (x3 * x) \div 1000
  IN x - x2 \div 2 + x3 \div 6 - x4 \div 24

\* x * f / 1000 rounded toward zero
scaleBy(x, f) == Sign(x) * ((Abs(x) * f) \div 1000)

dampAngle(current, target, lambda, delta) ==
  LET diff == wrapAngle(target - current)
      factor == dampFactor((lambda * delta * 1000) \div Second)
  IN current + scaleBy(diff, factor)

NoData == [position |-> 0, direction |-> 0, damage |-> 0, speed |-> 0]

fireProjectile(targetPos) ==
  LET barrelTip == StarbasePosition
                     + BARREL_TIP * Unit * Sign(targetPos - StarbasePosition)
  IN [position |-> barrelTip,
      direction |-> normalize(targetPos - barrelTip),
      damage |-> STARBASE_DAMAGE,
      speed |-> PROJECTILE_SPEED]

\* updateStarbase without the cooldown in its firing condition
updateStarbaseNoCooldown(es, deltaTime, tsl, rotation) ==
  LET target == getClosestEnemy(es, StarbasePosition, STARBASE_RANGE * Unit)
      tracking == target # NoEnemy /\ EnemyById(es, target).alive
      targetPos == IF target # NoEnemy THEN EnemyById(es, target).pos ELSE 0
      targetAngle == targetAngleOf(targetPos - StarbasePosition)
      lambda == STARBASE_ROTATION_SPEED * 3
      rot == IF tracking
               THEN dampAngle(rotation, targetAngle, lambda, deltaTime)
               ELSE rotation
      isAimed == tracking /\ Abs(wrapAngle(targetAngle - rot)) < AIM_TOLERANCE
      elapsed == tsl + deltaTime
      fire == target # NoEnemy /\ isAimed
  IN [currentTarget |-> target,
      turretRotation |-> rot,
      \* the cooldown is only ever compared with fireInterval: saturate it
      timeSinceLastShot |-> IF fire THEN 0 ELSE Min(elapsed, fireInterval),
      fired |-> fire,
      data |-> IF fire THEN fireProjectile(targetPos) ELSE NoData]

\* updateStarbase(deltaTime)
updateStarbase(es, deltaTime, tsl, rotation) ==
  LET target == getClosestEnemy(es, StarbasePosition, STARBASE_RANGE * Unit)
      tracking == target # NoEnemy /\ EnemyById(es, target).alive
      targetPos == IF target # NoEnemy THEN EnemyById(es, target).pos ELSE 0
      targetAngle == targetAngleOf(targetPos - StarbasePosition)
      lambda == STARBASE_ROTATION_SPEED * 3
      rot == IF tracking
               THEN dampAngle(rotation, targetAngle, lambda, deltaTime)
               ELSE rotation
      isAimed == tracking /\ Abs(wrapAngle(targetAngle - rot)) < AIM_TOLERANCE
      elapsed == tsl + deltaTime
      fire == target # NoEnemy /\ isAimed /\ elapsed >= fireInterval
  IN [currentTarget |-> target,
      turretRotation |-> rot,
      \* the cooldown is only ever compared with fireInterval: saturate it
      timeSinceLastShot |-> IF fire THEN 0 ELSE Min(elapsed, fireInterval),
      fired |-> fire,
      data |-> IF fire THEN fireProjectile(targetPos) ELSE NoData]

\* ------------------------------------------------------------ projectile.js
createProjectile(ps, id, data) ==
  Append(ps, [id |-> id, pos |-> data.position,
              direction |-> normalize(data.direction),
              speed |-> data.speed, damage |-> data.damage,
              distanceTraveled |-> 0, alive |-> TRUE,
              \* the updateProjectiles calls that advanced it
              ticks |-> 0])

\* a removal that leaves the registry as it is
removeProjectileKept(ps, index) == ps

\* projectiles.splice(index, 1), index counted from 1
removeProjectile(ps, index) ==
  [k \in 1..(Len(ps) - (IF index \in DOMAIN ps THEN 1 ELSE 0)) |->
     IF k < index THEN ps[k] ELSE ps[k + 1]]

\* the projection on the whole line through the segment, not clamped to it
closestPointOnLine(segStart, segEnd, point) ==
  IF segStart = segEnd THEN segStart ELSE point

closestPointOnSegment(segStart, segEnd, point) ==
  LET segment == segEnd - segStart
      toPoint == point - segStart
      segmentLength == Abs(segment)
  IN IF segmentLength = 0 THEN segStart
     ELSE LET dir == normalize(segment)
              projection == Max(0, Min(segmentLength, toPoint * dir))
          IN segStart + dir * projection

\* a hit test that also accepts the hit radius itself
withinHitRadiusInclusive(dist, enemy) ==
  200 * dist <= 3 * EnemyConfig[enemy.type].size * Unit

\* dist < enemy.mesh.scale.x * 1.5, the scale being the configured size
withinHitRadius(dist, enemy) ==
  200 * dist < 3 * EnemyConfig[enemy.type].size * Unit

NoHit(es) == [hit |-> FALSE, enemies |-> es, info |-> <<>>]

hitResult(es, enemy, projectile, position, oldPos, newPos) ==
  LET d == damageEnemy(es, enemy.id, projectile.damage) IN
  [hit |-> TRUE, enemies |-> d.enemies,
   info |-> [projectile |-> projectile.id, enemy |-> enemy.id,
             type |-> enemy.type, damage |-> projectile.damage,
             destroyed |-> d.destroyed, position |-> position,
             creditValue |-> IF d.destroyed THEN creditsPerKill[enemy.type] ELSE 0,
             pointValue |-> IF d.destroyed THEN pointsPerKill[enemy.type] ELSE 0,
             \* the registry and the segment the test ran on
             registry |-> es, oldPos |-> oldPos, newPos |-> newPos,
             ticks |-> projectile.ticks,
             distanceTraveled |-> projectile.distanceTraveled]]

RECURSIVE checkProjectileCollisionLoop(_, _, _, _, _)
checkProjectileCollisionLoop(es, k, projectile, oldPos, newPos) ==
  IF k > Len(es) THEN NoHit(es)
  ELSE IF ~es[k].alive
    THEN checkProjectileCollisionLoop(es, k + 1, projectile, oldPos, newPos)
  ELSE LET enemy == es[k]
           closestPoint == closestPointOnSegment(oldPos, newPos, enemy.pos)
       IN IF withinHitRadius(distanceTo(newPos, enemy.pos), enemy)
            THEN hitResult(es, enemy, projectile, newPos, oldPos, newPos)
          ELSE IF withinHitRadius(distanceTo(closestPoint, enemy.pos), enemy)
            THEN hitResult(es, enemy, projectile, closestPoint, oldPos, newPos)
          ELSE checkProjectileCollisionLoop(es, k + 1, projectile, oldPos, newPos)

checkProjectileCollision(es, projectile, oldPos, newPos) ==
  checkProjectileCollisionLoop(es, 1, projectile, oldPos, newPos)

\* a range test that also removes at the limit itself
tooFarInclusive(distanceTraveled) == distanceTraveled >= MAX_DISTANCE * Unit

\* projectile.distanceTraveled > MAX_DISTANCE
tooFar(distanceTraveled) == distanceTraveled > MAX_DISTANCE * Unit

\* what the loop did with a projectile that hit nothing
missResult(es, projectile, oldPos, expired) ==
  [projectile |-> projectile.id, registry |-> es, oldPos |-> oldPos,
   newPos |-> projectile.pos, ticks |-> projectile.ticks,
   distanceTraveled |-> projectile.distanceTraveled, expired |-> expired]

\* log.hits is the hits array; log.misses records the other iterations
RECURSIVE updateProjectilesLoop(_, _, _, _, _)
updateProjectilesLoop(ps, es, log, i, deltaTime) ==
  IF i < 1 THEN [projectiles |-> ps, enemies |-> es, hits |-> log.hits,
                 misses |-> log.misses]
  ELSE IF ~ps[i].alive
    THEN updateProjectilesLoop(ps, es, log, i - 1, deltaTime)
  ELSE LET moveDistance == ps[i].speed * deltaTime
           oldPosition == ps[i].pos
           moved == [ps[i] EXCEPT !.pos = @ + ps[i].direction * moveDistance,
                                  !.distanceTraveled = @ + moveDistance,
                                  !.ticks = @ + Sign(deltaTime)]
           hit == checkProjectileCollision(es, moved, oldPosition, moved.pos)
           expired == tooFar(moved.distanceTraveled)
           missed == [log EXCEPT !.misses =
                        Append(@, missResult(es, moved, oldPosition, expired))]
           ps1 == [ps EXCEPT ![i] = moved]
       IN IF hit.hit
            THEN updateProjectilesLoop(
                   removeProjectile(ps1, i), hit.enemies,
                   [log EXCEPT !.hits = Append(@, hit.info)], i - 1, deltaTime)
          ELSE IF expired
            THEN updateProjectilesLoop(removeProjectile(ps1, i), es, missed,
                                       i - 1, deltaTime)
          ELSE updateProjectilesLoop(ps1, es, missed, i - 1, deltaTime)

updateProjectiles(ps, es, deltaTime) ==
  updateProjectilesLoop(ps, es, [hits |-> <<>>, misses |-> <<>>], Len(ps),
                        deltaTime)

clearProjectiles(ps) == <<>>

\* --------------------------------------------------------------- economy.js
\* recordShot(); the mutant does not count the shot
recordShotNone(fired) == fired
recordShot(fired) == fired + 1

getAccuracy(fired, hit) == IF fired = 0 THEN 100 ELSE Round(hit * 100, fired)

\* awardWaveBonus: the credits and the score it adds
\* (CONFIG.scoring.accuracyBonus is 0.5)
awardWaveBonus(waveNumber, fired, hit) ==
  LET bonus == Waves[waveNumber].bonusCredits
      accuracyBonus == Round(bonus * getAccuracy(fired, hit), 200)
  IN [credits |-> bonus + accuracyBonus, score |-> accuracyBonus * 10]

\* ------------------------------------------------------------------ main.js
\* THREE.Clock as main.js uses it: new Clock(), getDelta(), stop(), start()
newClock == [running |-> FALSE, autoStart |-> TRUE]
clockStop(c) == [running |-> FALSE, autoStart |-> FALSE]
clockStart(c) == [c EXCEPT !.running = TRUE]
\* raw is the time elapsed on the wall clock since the previous reading
getDelta(c, raw) ==
  IF c.autoStart /\ ~c.running THEN [clock |-> clockStart(c), diff |-> 0]
  ELSE IF c.running THEN [clock |-> c, diff |-> raw]
  ELSE [clock |-> c, diff |-> 0]

RawDeltas == 0..(MaxDelta + ExtraRawDelta)

\* the frame clamp: Math.min(clock.getDelta(), 0.1)
clampDelta(diff) == Min(diff, MaxDelta)

RECURSIVE repeatEntry(_, _)
repeatEntry(entry, n) ==
  IF n = 0 THEN <<>> ELSE <<entry>> \o repeatEntry(entry, n - 1)

RECURSIVE buildQueue(_, _)
buildQueue(groups, g) ==
  IF g > Len(groups) THEN <<>>
  ELSE repeatEntry([type |-> groups[g].type,
                    spawnDelay |-> groups[g].spawnDelay * MaxDelta],
                   groups[g].count)
       \o buildQueue(groups, g + 1)

\* the spawn queue startWave builds
startWaveQueue(waveNumber) == buildQueue(getWaveConfig(waveNumber).enemies, 1)

NoTick == [update |-> FALSE, deltaTime |-> 0, reachedPlanet |-> FALSE,
           fired |-> 0, gap |-> 0, hits |-> <<>>, misses |-> <<>>,
           advanced |-> <<>>,
           completed |-> FALSE]

NoWaves == [started |-> <<>>, completed |-> <<>>, waited |-> 0]

\* a JavaScript number: NaN, or the integer v
Num(v) == [nan |-> FALSE, v |-> v]
NaN == [nan |-> TRUE, v |-> 0]

\* the Level a game starts with; LevelEnemies entries wait in its queue
NewLevel == [elapsedTime |-> Num(0), nextSpawnTime |-> Num(0),
             enemyQueue |-> LevelEnemies, isComplete |-> FALSE]

\* the entity-class Game after init(): animate(performance.now()) has run
\* once and its request is pending (loops); the start screen is showing.
\* frameQueue counts the callbacks of the frame in progress not yet run.
NewGame == [isGameRunning |-> FALSE, started |-> FALSE,
            lastFrameTime |-> Num(0), now |-> 0, loops |-> 1,
            frameQueue |-> 0, level |-> NewLevel, enemies |-> 0,
            updates |-> <<>>]

\* the prototype Game after init(): the starbase is the only game object
StarbaseObject == 0
NoDamage == [hit |-> FALSE, type |-> "FIGHTER", amount |-> 0, before |-> 0,
             after |-> 0]
NewGame2d == [gameObjects |-> <<StarbaseObject>>, enemies |-> <<>>,
              credits |-> 0, nextId |-> 1, damage |-> NoDamage]

NoQuery == [done |-> FALSE, enemies |-> <<>>, position |-> 0, range |-> 0,
            result |-> 0]
NoCollections == [projectiles |-> <<>>, gameObjects |-> <<>>,
                  enemies |-> <<>>, platforms |-> <<>>]
NoRemoval == [done |-> FALSE, kind |-> "none", ids |-> {}, index |-> 0,
              before |-> NoCollections, objects |-> <<>>]

\* the parts of the repository a specification leaves alone
OtherAtRest ==
  /\ game = NewGame
  /\ game2d = NewGame2d
  /\ platforms = <<>>
  /\ query = NoQuery
  /\ lastRemoval = NoRemoval

ModularAtRest ==
  /\ currentState = GameState.MENU
  /\ currentWave = 1
  /\ enemiesSpawnedThisWave = 0
  /\ enemiesToSpawnThisWave = 0
  /\ spawnTimer = 0
  /\ waveEnemyQueue = <<>>
  /\ waveTransitionTimer = 0
  /\ clock = newClock
  /\ placementActive = FALSE
  /\ enemies = <<>>
  /\ projectiles = <<>>
  /\ nextId = 1
  /\ timeSinceLastShot = 0
  /\ currentTarget = NoEnemy
  /\ turretRotation = 0
  /\ credits = STARTING_CREDITS
  /\ score = 0
  /\ totalKills = 0
  /\ shotsFired = 0
  /\ shotsHit = 0
  /\ games = 0
  /\ tick = NoTick
  /\ waveLog = NoWaves
  /\ simSinceShot = 0
  /\ hitLog = <<>>

Init == ModularAtRest /\ OtherAtRest

\* startWave(waveNumber)
startWave(waveNumber) ==
  /\ waveEnemyQueue' = startWaveQueue(waveNumber)
  /\ enemiesToSpawnThisWave' = Len(startWaveQueue(waveNumber))
  /\ enemiesSpawnedThisWave' = 0
  /\ spawnTimer' = 0

\* startGame(): the start button and the restart buttons of the victory,
\* defeat and pause screens
StartGame ==
  /\ currentState \in {GameState.MENU, GameState.VICTORY, GameState.DEFEAT,
                       GameState.PAUSED}
  /\ games < MaxGames
  /\ games' = games + 1
  /\ currentState' = GameState.PLAYING
  /\ currentWave' = 1
  /\ enemies' = <<>>
  /\ projectiles' = clearProjectiles(projectiles)
  /\ nextId' = 1
  /\ currentTarget' = NoEnemy
  /\ credits' = STARTING_CREDITS
  /\ score' = 0
  /\ totalKills' = 0
  /\ shotsFired' = 0
  /\ shotsHit' = 0
  /\ startWave(1)
  /\ waveLog' = [started |-> <<1>>, completed |-> <<>>, waited |-> 0]
  /\ hitLog' = <<>>
  /\ tick' = NoTick
  /\ UNCHANGED <<waveTransitionTimer, clock, placementActive,
                 timeSinceLastShot, turretRotation, simSinceShot, otherVars>>

\* pauseGame()
pauseGame ==
  IF currentState # GameState.PLAYING
    THEN UNCHANGED <<currentState, clock>>
    ELSE /\ currentState' = GameState.PAUSED
         /\ clock' = clockStop(clock)

\* resumeGame()
resumeGame ==
  IF currentState # GameState.PAUSED
    THEN UNCHANGED <<currentState, clock>>
    ELSE /\ currentState' = GameState.PLAYING
         /\ clock' = clockStart(clock)

\* Escape: the keydown listener of input.js (registered first by initInput)
\* cancels a placement, then the listener of main.js runs
EscapeKey ==
  /\ placementActive' = FALSE
  /\ CASE currentState = GameState.PLAYING -> pauseGame
       [] currentState = GameState.PAUSED -> resumeGame
       [] OTHER -> UNCHANGED <<currentState, clock>>
  /\ tick' = NoTick
  /\ UNCHANGED <<currentWave, enemiesSpawnedThisWave, enemiesToSpawnThisWave,
                 spawnTimer, waveEnemyQueue, waveTransitionTimer,
                 entityVars, starbaseVars, economyVars,
                 games, waveLog, simSinceShot, hitLog, otherVars>>

\* the resume button of the pause screen
ResumeButton ==
  /\ currentState = GameState.PAUSED
  /\ resumeGame
  /\ tick' = NoTick
  /\ UNCHANGED <<currentWave, enemiesSpawnedThisWave, enemiesToSpawnThisWave,
                 spawnTimer, waveEnemyQueue, waveTransitionTimer,
                 placementActive, entityVars, starbaseVars, economyVars,
                 games, waveLog, simSinceShot, hitLog, otherVars>>

RECURSIVE sumKills(_, _)
\* the hits.forEach of update(): credits, score and kills the hits add
sumKills(hits, k) ==
  IF k > Len(hits) THEN [credits |-> 0, score |-> 0, kills |-> 0]
  ELSE LET rest == sumKills(hits, k + 1) IN
       IF hits[k].destroyed
         THEN [credits |-> rest.credits + creditsPerKill[hits[k].type],
               score |-> rest.score + pointsPerKill[hits[k].type],
               kills |-> rest.kills + 1]
         ELSE rest

\* update(): the phases after spawning, with projectiles advanced before the
\* enemies and the starbase, and a shot left where it was created
simulateProjectilesFirst(es, ps, id, deltaTime, tsl, rotation) ==
  LET pr0 == updateProjectiles(ps, es, deltaTime)
      enemyResult == updateEnemies(pr0.enemies, deltaTime)
      sb == updateStarbase(enemyResult.enemies, deltaTime, tsl, rotation)
  IN [enemyResult |-> enemyResult, sb |-> sb,
      pr |-> [projectiles |-> IF sb.fired
                                THEN createProjectile(pr0.projectiles, id, sb.data)
                                ELSE pr0.projectiles,
              enemies |-> enemyResult.enemies,
              hits |-> pr0.hits, misses |-> pr0.misses]]

\* update(): the phases after spawning: updateEnemies, then updateStarbase
\* (with createProjectile when it fired), then updateProjectiles
simulate(es, ps, id, deltaTime, tsl, rotation) ==
  LET enemyResult == updateEnemies(es, deltaTime)
      sb == updateStarbase(enemyResult.enemies, deltaTime, tsl, rotation)
      fired == IF sb.fired THEN createProjectile(ps, id, sb.data) ELSE ps
      pr == updateProjectiles(fired, enemyResult.enemies, deltaTime)
  IN [enemyResult |-> enemyResult, sb |-> sb, pr |-> pr]

\* a defeat that leaves the state as it is
handleDefeatNoState == currentState

\* handleDefeat(): the state it sets
handleDefeat == GameState.DEFEAT

\* a win condition that only looks at the spawn count
waveIsCompleteSpawnedOnly(spawned, toSpawn, es) == spawned >= toSpawn

\* update(): the win condition
waveIsComplete(spawned, toSpawn, es) ==
  spawned >= toSpawn /\ getEnemyCount(es) = 0

\* a spawn that leaves the queue as it is
shiftNone(queue) == queue

\* waveEnemyQueue.shift()
shift(queue) == Tail(queue)

\* update(deltaTime): spawning, enemies, lose condition, starbase,
\* projectiles, hits, win condition
update(deltaTime) ==
  \E pathName \in PathNames :
    LET spawning == enemiesSpawnedThisWave < enemiesToSpawnThisWave
        timer == IF spawning THEN spawnTimer + deltaTime ELSE spawnTimer
        doSpawn == /\ spawning
                   /\ Len(waveEnemyQueue) > 0
                   /\ timer >= Head(waveEnemyQueue).spawnDelay
        spawned == IF doSpawn
                     THEN spawnEnemy(enemies, nextId,
                                     Head(waveEnemyQueue).type, pathName)
                     ELSE enemies
        id1 == IF doSpawn THEN nextId + 1 ELSE nextId
        spawnedCount == IF doSpawn THEN enemiesSpawnedThisWave + 1
                        ELSE enemiesSpawnedThisWave
        sinceShot == Min(simSinceShot + deltaTime, fireInterval)
    IN
    \E sim \in {simulate(spawned, projectiles, id1, deltaTime,
                         timeSinceLastShot, turretRotation)} :
    LET enemyResult == sim.enemyResult
        sb == sim.sb
        pr == sim.pr
        kills == sumKills(pr.hits, 1)
        complete == waveIsComplete(spawnedCount, enemiesToSpawnThisWave,
                                   pr.enemies)
        bonus == awardWaveBonus(currentWave,
                                shotsFired + (IF sb.fired THEN 1 ELSE 0),
                                shotsHit + Len(pr.hits))
    IN
    /\ spawnTimer' = IF doSpawn THEN 0 ELSE timer
    /\ waveEnemyQueue' = IF doSpawn THEN shift(waveEnemyQueue) ELSE waveEnemyQueue
    /\ enemiesSpawnedThisWave' = spawnedCount
    /\ UNCHANGED <<currentWave, enemiesToSpawnThisWave, placementActive,
                   games>>
    /\ IF enemyResult.reachedPlanet
         THEN \* handleDefeat(); return
              /\ currentState' = handleDefeat
              /\ enemies' = enemyResult.enemies
              /\ nextId' = id1
              /\ simSinceShot' = sinceShot
              /\ tick' = [NoTick EXCEPT !.update = TRUE,
                                        !.deltaTime = deltaTime,
                                        !.reachedPlanet = TRUE,
                                        !.advanced = enemyResult.enemies]
              /\ UNCHANGED <<waveTransitionTimer, projectiles, starbaseVars,
                             economyVars, waveLog, hitLog>>
         ELSE /\ currentTarget' = sb.currentTarget
              /\ turretRotation' = sb.turretRotation
              /\ timeSinceLastShot' = sb.timeSinceLastShot
              /\ shotsFired' = IF sb.fired THEN recordShot(shotsFired) ELSE shotsFired
              /\ nextId' = IF sb.fired THEN id1 + 1 ELSE id1
              /\ projectiles' = pr.projectiles
              /\ enemies' = pr.enemies
              /\ shotsHit' = shotsHit + Len(pr.hits)
              /\ totalKills' = totalKills + kills.kills
              /\ simSinceShot' = IF sb.fired THEN 0 ELSE sinceShot
              /\ hitLog' = hitLog \o [k \in DOMAIN pr.hits |-> pr.hits[k].projectile]
              /\ tick' = [update |-> TRUE, deltaTime |-> deltaTime,
                          reachedPlanet |-> FALSE,
                          fired |-> IF sb.fired THEN id1 ELSE 0,
                          gap |-> sinceShot, hits |-> pr.hits,
                          misses |-> pr.misses,
                          advanced |-> enemyResult.enemies,
                          completed |-> complete]
              /\ IF complete
                   THEN \* completeWave()
                        /\ currentState' = GameState.WAVE_COMPLETE
                        /\ credits' = credits + kills.credits + bonus.credits
                        /\ score' = score + kills.score + bonus.score
                        /\ waveTransitionTimer' = WAVE_TRANSITION_DELAY * Second
                        /\ waveLog' = [waveLog EXCEPT
                                         !.completed = Append(@, currentWave),
                                         !.waited = 0]
                   ELSE /\ credits' = credits + kills.credits
                        /\ score' = score + kills.score
                        /\ UNCHANGED <<currentState, waveTransitionTimer,
                                       waveLog>>

\* the WAVE_COMPLETE branch of animate(), with nextWave()
waveTransition(deltaTime) ==
  LET waited == [waveLog EXCEPT
                   !.waited = Min(@ + deltaTime, WAVE_TRANSITION_DELAY * Second)]
  IN
  /\ waveTransitionTimer' = waveTransitionTimer - deltaTime
  /\ tick' = NoTick
  /\ UNCHANGED <<placementActive, entityVars, starbaseVars, economyVars,
                 games, simSinceShot, hitLog>>
  /\ IF waveTransitionTimer - deltaTime <= 0
       THEN /\ currentWave' = currentWave + 1
            /\ IF currentWave + 1 > totalWaves
                 THEN \* handleVictory()
                      /\ currentState' = GameState.VICTORY
                      /\ waveLog' = waited
                      /\ UNCHANGED <<enemiesSpawnedThisWave,
                                     enemiesToSpawnThisWave, spawnTimer,
                                     waveEnemyQueue>>
                 ELSE /\ currentState' = GameState.PLAYING
                      /\ startWave(currentWave + 1)
                      /\ waveLog' = [waited EXCEPT
                                       !.started = Append(@, currentWave + 1)]
       ELSE /\ waveLog' = waited
            /\ UNCHANGED <<currentState, currentWave, enemiesSpawnedThisWave,
                           enemiesToSpawnThisWave, spawnTimer, waveEnemyQueue>>

\* a transition branch taken in every state that is not PLAYING
isInTransitionElse(state) == TRUE

\* animate(): the condition of its wave transition branch
isInTransition(state) == state = GameState.WAVE_COMPLETE

\* animate(): one frame of the game loop
Frame ==
  \E raw \in RawDeltas :
    LET d == getDelta(clock, raw)
        deltaTime == clampDelta(d.diff)
    IN /\ clock' = d.clock
       /\ UNCHANGED otherVars
       /\ IF currentState = GameState.PLAYING
            THEN /\ update(deltaTime)
          ELSE IF isInTransition(currentState)
            THEN waveTransition(deltaTime)
          ELSE /\ tick' = NoTick
               /\ UNCHANGED <<currentState, currentWave,
                              enemiesSpawnedThisWave, enemiesToSpawnThisWave,
                              spawnTimer, waveEnemyQueue, waveTransitionTimer,
                              placementActive, entityVars, starbaseVars,
                              economyVars, games, waveLog, simSinceShot, hitLog>>

Next ==
  \/ StartGame
  \/ ResumeButton
  \/ EscapeKey
  \/ Frame

Spec == Init /\ [][Next]_vars

\* ---------------------------------------------------------------------------
\* The projectile system on its own: any registry of enemies near the
\* starbase, projectiles created by the starbase's fireProjectile, and
\* updateProjectiles applied with any frame time.
\* ---------------------------------------------------------------------------
\* the distance a projectile travels in a tick of MaxDelta, and the cells of
\* the enemies: two near the barrel, one whose hit radius ends exactly where
\* the first tick's segment ends, one three ticks away from the barrel tip
TickTravel == PROJECTILE_SPEED * MaxDelta
ProjCells ==
  {4 * Unit, 6 * Unit,
   BARREL_TIP * Unit + TickTravel + (3 * EnemyConfig.basic.size * Unit) \div 200,
   BARREL_TIP * Unit + 3 * TickTravel}

\* health of an enemy that one more starbase hit destroys
lastHealth(type) ==
  LET d == effectiveDamage(STARBASE_DAMAGE, EnemyConfig[type].armor)
      n == (EnemyConfig[type].health + d - 1) \div d
  IN EnemyConfig[type].health - d * (n - 1)

ProjChoices ==
  {[type |-> t, cell |-> c, health |-> h] :
     t \in {"basic", "armored"}, c \in ProjCells, h \in {0, 1}}

\* an enemy on the default path, `cell` cells away from the planet
ProjEnemy(id, choice) ==
  [newEnemy(id, choice.type, "default") EXCEPT
     !.progress = totalLength("default") - choice.cell,
     !.pos = getPositionOnPath("default", totalLength("default") - choice.cell),
     !.health = IF choice.health = 0 THEN lastHealth(choice.type)
                ELSE EnemyConfig[choice.type].health]

ProjRegistries ==
  UNION {{[i \in 1..n |-> ProjEnemy(i, f[i])] : f \in [1..n -> ProjChoices]} :
           n \in 0..MaxProjEnemies}

InitProj ==
  /\ OtherAtRest
  /\ enemies \in ProjRegistries
  /\ projectiles = <<>>
  /\ nextId = MaxProjEnemies + 1
  /\ currentState = GameState.PLAYING
  /\ currentWave = 1
  /\ enemiesSpawnedThisWave = 0
  /\ enemiesToSpawnThisWave = 0
  /\ spawnTimer = 0
  /\ waveEnemyQueue = <<>>
  /\ waveTransitionTimer = 0
  /\ clock = newClock
  /\ placementActive = FALSE
  /\ timeSinceLastShot = 0
  /\ currentTarget = NoEnemy
  /\ turretRotation = 0
  /\ credits = STARTING_CREDITS
  /\ score = 0
  /\ totalKills = 0
  /\ shotsFired = 0
  /\ shotsHit = 0
  /\ games = 0
  /\ tick = NoTick
  /\ waveLog = NoWaves
  /\ simSinceShot = 0
  /\ hitLog = <<>>

\* createProjectile(fireProjectile(target)) for a target at one of the cells
ProjCreate ==
  /\ nextId <= MaxProjEnemies + MaxShots
  /\ \E targetPos \in ProjCells :
       projectiles' = createProjectile(projectiles, nextId,
                                       fireProjectile(targetPos))
  /\ nextId' = nextId + 1
  /\ tick' = NoTick
  /\ UNCHANGED <<mainVars, enemies, starbaseVars, economyVars, games,
                 waveLog, simSinceShot, hitLog, otherVars>>

\* updateProjectiles(deltaTime)
ProjUpdate ==
  \E deltaTime \in 0..MaxDelta :
    LET pr == updateProjectiles(projectiles, enemies, deltaTime) IN
    /\ projectiles' = pr.projectiles
    /\ enemies' = pr.enemies
    /\ hitLog' = hitLog \o [k \in DOMAIN pr.hits |-> pr.hits[k].projectile]
    /\ tick' = [NoTick EXCEPT !.update = TRUE, !.deltaTime = deltaTime,
                              !.hits = pr.hits, !.misses = pr.misses,
                              !.advanced = enemies]
    /\ UNCHANGED <<mainVars, nextId, starbaseVars, economyVars, games,
                   waveLog, simSinceShot, otherVars>>

NextProj == ProjCreate \/ ProjUpdate

SpecProj == InitProj /\ [][NextProj]_vars

\* ------------------------------------------------------------------ claims
Range(f) == {f[k] : k \in DOMAIN f}
NoDuplicates(f) == \A i, j \in DOMAIN f : f[i] = f[j] => i = j

\* the two tests of the collision check, for enemy e and the segment of hit h
Qualifies(e, h) ==
  \/ withinHitRadius(distanceTo(h.newPos, e.pos), e)
  \/ withinHitRadius(
       distanceTo(closestPointOnSegment(h.oldPos, h.newPos, e.pos), e.pos), e)

\* hit h struck the first alive enemy of the registry that passes a test
FirstQualifying(h) ==
  \E i \in DOMAIN h.registry :
    /\ h.registry[i].id = h.enemy
    /\ h.registry[i].alive
    /\ Qualifies(h.registry[i], h)
    /\ \A j \in 1..(i - 1) :
         ~(h.registry[j].alive /\ Qualifies(h.registry[j], h))

\* C1: a projectile registers a hit on at most one enemy in its lifetime (no
\* projectile appears twice among the hits), every hit is on the first alive
\* enemy, in registry order, that passes a collision test, and a projectile
\* that has hit is out of the projectile registry by the end of that tick, so
\* no later tick advances or tests it.
C1_SingleHit ==
  /\ NoDuplicates(hitLog)
  /\ \A k \in DOMAIN projectiles : projectiles[k].id \notin Range(hitLog)
  /\ \A k \in DOMAIN tick.hits : FirstQualifying(tick.hits[k])

\* a tick in which a projectile passed two alive enemies that both pass a
\* test and struck the one that is first in the registry, though it is the
\* farther one along the projectile's way
C1_Witness ==
  /\ tick.update
  /\ \E k \in DOMAIN tick.hits :
       LET h == tick.hits[k] IN
       /\ Len(h.registry) = 2
       /\ h.enemy = h.registry[1].id
       /\ Qualifies(h.registry[2], h)
       /\ distanceTo(h.oldPos, h.registry[2].pos)
            < distanceTo(h.oldPos, h.registry[1].pos)
       /\ h.projectile \in Range(hitLog)

\* C4: updateStarbase fires in a tick only when the target it re-resolved in
\* that tick is an alive enemy of the registry, the turret is within the aim
\* tolerance of it, and at least 1 / fireRate of tick time has accumulated
\* since the previous shot.
C4_FireConditions ==
  (tick.update /\ tick.fired # 0) =>
    /\ currentTarget # NoEnemy
    /\ \E i \in DOMAIN tick.advanced :
         /\ tick.advanced[i].id = currentTarget
         /\ tick.advanced[i].alive
         /\ Abs(wrapAngle(targetAngleOf(tick.advanced[i].pos - StarbasePosition)
                          - turretRotation)) < AIM_TOLERANCE
    /\ tick.gap >= fireInterval

\* a shot at an alive enemy, after an earlier shot of the same game
C4_Witness ==
  /\ tick.update
  /\ tick.fired # 0
  /\ shotsFired >= 2
  /\ \E i \in DOMAIN tick.advanced : tick.advanced[i].id = currentTarget

\* C5: within a tick the enemies advance first, then the starbase, then the
\* projectiles: a projectile fired in a tick has been advanced by that tick's
\* frame time (or has hit) at the end of the tick, and every collision test
\* of the tick ran on the positions the enemies have after advancing.
C5_PhaseOrder ==
  (tick.update /\ ~tick.reachedPlanet) =>
    /\ tick.fired # 0 =>
         \/ tick.fired \in Range(hitLog)
         \/ \E k \in DOMAIN projectiles :
              /\ projectiles[k].id = tick.fired
              /\ projectiles[k].distanceTraveled
                   = PROJECTILE_SPEED * tick.deltaTime
    /\ \A k \in DOMAIN tick.hits :
         \A i \in DOMAIN tick.hits[k].registry :
           \E j \in DOMAIN tick.advanced :
             /\ tick.advanced[j].id = tick.hits[k].registry[i].id
             /\ tick.advanced[j].pos = tick.hits[k].registry[i].pos

\* a tick of positive frame time in which the starbase fired and the new
\* projectile hit an enemy that had moved in that tick
C5_Witness ==
  /\ tick.update
  /\ tick.deltaTime > 0
  /\ tick.fired # 0
  /\ \E k \in DOMAIN tick.hits : tick.hits[k].projectile = tick.fired

InDefeat == currentState = GameState.DEFEAT

\* C6: the tick in which an enemy reaches the planet ends in DEFEAT without
\* running the starbase, the projectiles or the scoring; from DEFEAT nothing
\* moves, no tick runs and no other state is entered until startGame.
C6_DefeatStep ==
  /\ (tick'.update /\ tick'.reachedPlanet /\ tick' # tick) =>
       /\ currentState' = GameState.DEFEAT
       /\ UNCHANGED <<projectiles, starbaseVars, economyVars, hitLog>>
  /\ InDefeat =>
       \/ /\ currentState' = GameState.DEFEAT
          /\ ~tick'.update \/ tick' = tick
          /\ UNCHANGED <<entityVars, starbaseVars, economyVars, currentWave,
                         waveEnemyQueue, spawnTimer, games>>
       \/ /\ currentState' = GameState.PLAYING
          /\ games' = games + 1
          /\ currentWave' = 1

C6_Defeat == [][C6_DefeatStep]_vars

\* an enemy has reached the planet while another enemy, which the starbase
\* would have tracked in the rest of the tick, is alive
C6_Witness ==
  /\ InDefeat
  /\ tick.update
  /\ tick.reachedPlanet
  /\ \E i \in DOMAIN enemies : enemies[i].alive

Counting(n) == [i \in 1..n |-> i]
TransitionDelay == WAVE_TRANSITION_DELAY * Second

\* C7: the waves of a game start in the order 1, 2, ..., a wave starts only
\* when the one before it has completed and the transition delay has passed
\* in frames since, a wave completes only with every enemy of it spawned and
\* none alive, and VICTORY is entered only with waves 1..totalWaves all
\* started and completed.
C7_WaveOrder ==
  LET started == waveLog.started
      completed == waveLog.completed
  IN /\ started = Counting(Len(started))
     /\ completed = Counting(Len(completed))
     /\ Len(started) <= totalWaves
     /\ Len(completed) <= Len(started)
     /\ Len(started) <= Len(completed) + 1
     /\ (Len(started) > Len(completed) /\ Len(completed) >= 1)
          => waveLog.waited >= TransitionDelay
     /\ currentState = GameState.VICTORY =>
          /\ Len(started) = totalWaves
          /\ Len(completed) = totalWaves
          /\ waveLog.waited >= TransitionDelay
     /\ ((tick.update /\ tick.completed)
           \/ currentState = GameState.WAVE_COMPLETE) =>
          /\ enemiesSpawnedThisWave >= enemiesToSpawnThisWave
          /\ waveEnemyQueue = <<>>
          /\ getEnemyCount(enemies) = 0

\* the game is won: five waves have started and completed
C7_Witness ==
  /\ currentState = GameState.VICTORY
  /\ waveLog.completed = Counting(totalWaves)
  /\ totalKills > 0

\* what a pause must leave alone
Frozen == <<enemies, projectiles, waveEnemyQueue, spawnTimer, currentWave,
            enemiesSpawnedThisWave, enemiesToSpawnThisWave, credits, score>>

\* C8: PAUSED is entered only from PLAYING and, short of a new game, left
\* only to PLAYING; entering it, staying in it (whatever frames run) and
\* leaving it to PLAYING change none of the enemies, projectiles, spawn
\* queue, spawn timer, wave counters, credits and score.
C8_PauseStep ==
  /\ (currentState' = GameState.PAUSED /\ currentState # GameState.PAUSED) =>
       /\ currentState = GameState.PLAYING
       /\ Frozen' = Frozen
  /\ (currentState = GameState.PAUSED /\ games' = games) =>
       /\ currentState' \in {GameState.PAUSED, GameState.PLAYING}
       /\ Frozen' = Frozen

C8_Pause == [][C8_PauseStep]_vars

\* the game is paused with enemies alive, a projectile in flight and enemies
\* still to spawn
C8_Witness ==
  /\ currentState = GameState.PAUSED
  /\ enemies # <<>>
  /\ projectiles # <<>>
  /\ waveEnemyQueue # <<>>

\* ---------------------------------------------------------------------------
\* The closest-enemy query of the entity-class game (game.js,
\* Game.findClosestEnemy), applied to any registry of enemies on the line
\* through the starbase.  Positions are in world units.
\* ---------------------------------------------------------------------------
RECURSIVE findClosestEnemyLoopNoRange(_, _, _, _, _, _, _)
\* the scan without the range limit of the starbase
findClosestEnemyLoopNoRange(es, i, position, isStarbase, cannonRange, closest, closestDistance) ==
  IF i > Len(es) THEN closest
  ELSE IF ~es[i].isAlive
    THEN findClosestEnemyLoopNoRange(es, i + 1, position, isStarbase,
                                     cannonRange, closest, closestDistance)
  ELSE LET distance == distanceTo(position, es[i].pos) IN
    IF closest = NoEnemy \/ distance < closestDistance
      THEN findClosestEnemyLoopNoRange(es, i + 1, position, isStarbase,
                                       cannonRange, es[i].id, distance)
      ELSE findClosestEnemyLoopNoRange(es, i + 1, position, isStarbase,
                                       cannonRange, closest, closestDistance)

RECURSIVE findClosestEnemyLoop(_, _, _, _, _, _, _)
\* the scan of Game.findClosestEnemy from enemy i on; closestDistance is
\* Infinity while closest is null
findClosestEnemyLoop(es, i, position, isStarbase, cannonRange, closest, closestDistance) ==
  IF i > Len(es) THEN closest
  ELSE IF ~es[i].isAlive
    THEN findClosestEnemyLoop(es, i + 1, position, isStarbase, cannonRange,
                              closest, closestDistance)
  ELSE LET distance == distanceTo(position, es[i].pos)
           closer == closest = NoEnemy \/ distance < closestDistance
           take == IF isStarbase THEN distance <= cannonRange /\ closer
                   ELSE closer
       IN IF take
            THEN findClosestEnemyLoop(es, i + 1, position, isStarbase,
                                      cannonRange, es[i].id, distance)
            ELSE findClosestEnemyLoop(es, i + 1, position, isStarbase,
                                      cannonRange, closest, closestDistance)

\* Game.findClosestEnemy(entity)
findClosestEnemy(es, position, isStarbase, cannonRange) ==
  findClosestEnemyLoop(es, 1, position, isStarbase, cannonRange, NoEnemy, 0)

\* places on the line, as offsets from the starbase: near, equally near on
\* the other side, farther, at the range, just beyond it
TargetOffsets ==
  {5, -5, 10, CANNON_RANGE, -CANNON_RANGE, CANNON_RANGE + 1}

TargetChoices == [offset : TargetOffsets, isAlive : BOOLEAN]

TargetRegistries ==
  UNION {{[i \in 1..n |-> [id |-> i,
                           pos |-> STARBASE_ORBIT_RADIUS + f[i].offset,
                           isAlive |-> f[i].isAlive]] :
            f \in [1..n -> TargetChoices]} : n \in 0..MaxTargets}

InitTarget ==
  /\ ModularAtRest
  /\ game = NewGame
  /\ game2d = NewGame2d
  /\ platforms = <<>>
  /\ lastRemoval = NoRemoval
  /\ query \in {[NoQuery EXCEPT !.enemies = es,
                                !.position = STARBASE_ORBIT_RADIUS,
                                !.range = CANNON_RANGE] :
                  es \in TargetRegistries}

\* Starbase.update: this.game.findClosestEnemy(this)
TargetQuery ==
  /\ ~query.done
  /\ query' = [query EXCEPT
                 !.done = TRUE,
                 !.result = findClosestEnemy(query.enemies, query.position,
                                             TRUE, query.range)]
  /\ UNCHANGED <<mainVars, entityVars, starbaseVars, economyVars,
                 historyVars, game, game2d, platforms, lastRemoval>>

NextTarget == TargetQuery

SpecTarget == InitTarget /\ [][NextTarget]_vars

QueryDistance(i) == Abs(query.enemies[i].pos - query.position)
QueryInRange(i) ==
  query.enemies[i].isAlive /\ QueryDistance(i) <= query.range

\* C3: the starbase's closest-enemy query returns null exactly when no alive
\* enemy is within the cannon range (the registry may be empty); otherwise it
\* returns an alive enemy within range at the least distance among those,
\* and of several at that distance the first in registry order.
C3_ClosestInRange ==
  query.done =>
    /\ query.result = NoEnemy <=>
         ~ \E i \in DOMAIN query.enemies : QueryInRange(i)
    /\ query.result # NoEnemy =>
         \E i \in DOMAIN query.enemies :
           /\ query.enemies[i].id = query.result
           /\ QueryInRange(i)
           /\ \A j \in DOMAIN query.enemies :
                QueryInRange(j) => QueryDistance(i) <= QueryDistance(j)
           /\ \A j \in 1..(i - 1) :
                QueryInRange(j) => QueryDistance(j) > QueryDistance(i)

\* a query answered with the second enemy of the registry: the first is
\* alive but beyond the range, the third is as near as the second
C3_Witness ==
  /\ query.done
  /\ Len(query.enemies) = 3
  /\ query.result = query.enemies[2].id
  /\ query.enemies[1].isAlive
  /\ QueryDistance(1) > query.range
  /\ QueryInRange(3)
  /\ QueryDistance(3) = QueryDistance(2)

\* ---------------------------------------------------------------------------
\* The loop of the entity-class game (game.js, second Game class; level.js).
\* Time is counted in the units of MaxDelta, so the division by 1000 of
\* animate is the choice of unit.
SPAWN_DELAY == 2

\* JavaScript arithmetic on numbers that may be NaN
numSub(a, b) == IF a.nan \/ b.nan THEN NaN ELSE Num(a.v - b.v)
numAdd(a, b) == IF a.nan \/ b.nan THEN NaN ELSE Num(a.v + b.v)
mathMin(a, b) == IF a.nan \/ b.nan THEN NaN ELSE Num(Min(a.v, b.v))
numGeq(a, b) == ~a.nan /\ ~b.nan /\ a.v >= b.v

\* timestamps a frame can follow the previous one by
FrameGaps == 1..(MaxDelta + ExtraRawDelta)

\* cancelAnimationFrame(this.animationFrame): the handle is the request made
\* last, which waits for the next frame (loops), or is the last callback of
\* the frame in progress (frameQueue), or is the callback that is running
cancelAnimationFrame(g) ==
  IF g.loops > 0 THEN [g EXCEPT !.loops = @ - 1]
  ELSE IF g.frameQueue > 0 THEN [g EXCEPT !.frameQueue = @ - 1]
  ELSE g

onLevelComplete(g) == cancelAnimationFrame([g EXCEPT !.isGameRunning = FALSE])

\* Level.update followed by the enemy loop of Game.update, in which killed
\* enemies leave the list; an enemy is spawned from the queue when the
\* elapsed time has reached the next spawn time
levelUpdate(g, deltaTime, killed) ==
  IF g.level.isComplete THEN g
  ELSE
    LET elapsed == numAdd(g.level.elapsedTime, deltaTime)
        spawn == numGeq(elapsed, g.level.nextSpawnTime)
                   /\ g.level.enemyQueue > 0
        queue == g.level.enemyQueue - (IF spawn THEN 1 ELSE 0)
        alive == g.enemies + (IF spawn THEN 1 ELSE 0)
        complete == queue = 0 /\ alive = 0
        g1 == [g EXCEPT
                 !.level.elapsedTime = elapsed,
                 !.level.enemyQueue = queue,
                 !.level.nextSpawnTime =
                   IF spawn THEN numAdd(elapsed, Num(SPAWN_DELAY * Second))
                   ELSE @,
                 !.level.isComplete = complete,
                 !.enemies = alive - Min(killed, alive)]
    IN IF complete THEN onLevelComplete(g1) ELSE g1

\* Game.update(deltaTime); updates records the argument of every call
gameUpdate(g, deltaTime, killed) ==
  levelUpdate([g EXCEPT !.updates = Append(@, deltaTime)], deltaTime, killed)

\* Game.animate(currentTime); a call without argument has currentTime
\* undefined, which every subtraction turns into NaN
animate(g, currentTime, killed) ==
  LET deltaTime == numSub(currentTime, g.lastFrameTime)
      g1 == [g EXCEPT !.lastFrameTime = currentTime]
      cappedDeltaTime == mathMin(deltaTime, Num(MaxDelta))
      g2 == IF g1.isGameRunning THEN gameUpdate(g1, cappedDeltaTime, killed)
            ELSE g1
  IN [g2 EXCEPT !.loops = @ + 1]

\* the browser runs the callbacks requested for a frame, all with its
\* timestamp
RECURSIVE animateFrame(_, _, _)
animateFrame(g, currentTime, killed) ==
  IF g.frameQueue = 0 THEN g
  ELSE animateFrame(animate([g EXCEPT !.frameQueue = @ - 1], currentTime,
                            killed),
                    currentTime, killed)

\* Game.startGame, reached from the start screen
startGame(g) ==
  animate([g EXCEPT !.isGameRunning = TRUE, !.started = TRUE,
                    !.level = NewLevel, !.enemies = 0,
                    !.lastFrameTime = Num(g.now), !.updates = <<>>],
          NaN, 0)

LoopFrame ==
  /\ \E raw \in FrameGaps, killed \in 0..1 :
       /\ game.now + raw <= MaxNow
       /\ game' = animateFrame([game EXCEPT !.now = @ + raw,
                                            !.frameQueue = game.loops,
                                            !.loops = 0,
                                            !.updates = <<>>],
                               Num(game.now + raw), killed)
  /\ UNCHANGED <<mainVars, entityVars, starbaseVars, economyVars,
                 historyVars, game2d, platforms, query, lastRemoval>>

\* the start button; the start screen is hidden by the click
LoopStartGame ==
  /\ ~game.started
  /\ game' = startGame(game)
  /\ UNCHANGED <<mainVars, entityVars, starbaseVars, economyVars,
                 historyVars, game2d, platforms, query, lastRemoval>>

NextLoop == LoopFrame \/ LoopStartGame

SpecLoop == Init /\ [][NextLoop]_vars

\* C9: every call of the simulation update function receives a deltaTime d
\* with 0 <= d <= 0.1 s (MaxDelta), also on the frames on which the loop is
\* started or restarted.
C9_DeltaRange ==
  \A k \in DOMAIN game.updates :
    /\ ~game.updates[k].nan
    /\ game.updates[k].v >= 0
    /\ game.updates[k].v <= MaxDelta

\* ---------------------------------------------------------------------------
\* The prototype game (game.js, first Game class; enemy.js).
ENEMY_TYPES ==
  [FIGHTER     |-> [health |-> 100, armor |-> 1,  credits |-> 5],
   BOMBER      |-> [health |-> 100, armor |-> 5,  credits |-> 10],
   DESTROYER   |-> [health |-> 200, armor |-> 10, credits |-> 20],
   BATTLESHIP  |-> [health |-> 300, armor |-> 20, credits |-> 30],
   DREADNOUGHT |-> [health |-> 400, armor |-> 30, credits |-> 40]]

\* enemy.takeDamage(10) of checkCollisions
BASE_DAMAGE == 10

\* Array.prototype.indexOf, counted from 1; 0 stands for -1
indexOf(seq, x) ==
  IF \E k \in DOMAIN seq : seq[k] = x
  THEN CHOOSE k \in DOMAIN seq : seq[k] = x /\ \A j \in 1..(k - 1) : seq[j] # x
  ELSE 0

\* seq.splice(index, 1), index counted from 1
splice(seq, index) ==
  [k \in 1..(Len(seq) - 1) |-> IF k < index THEN seq[k] ELSE seq[k + 1]]

\* the identities of the objects of a list
Ids(seq) == [k \in DOMAIN seq |-> seq[k].id]

\* the active collections of the three entity kinds
Collections ==
  [projectiles |-> Ids(projectiles), gameObjects |-> game2d.gameObjects,
   enemies |-> Ids(game2d.enemies), platforms |-> Ids(platforms)]

\* the record of a removal call about to be made
Removal(kind, ids, index) ==
  [done |-> TRUE, kind |-> kind, ids |-> ids, index |-> index,
   before |-> Collections, objects |-> <<>>]

\* new Enemy(game, type, path)
Enemy(g, type) ==
  [g EXCEPT !.gameObjects = Append(@, g.nextId),
            !.enemies = Append(@, [id |-> g.nextId, type |-> type,
                                   health |-> ENEMY_TYPES[type].health,
                                   armor |-> ENEMY_TYPES[type].armor,
                                   currentPathIndex |-> 0]),
            !.nextId = @ + 1]

\* Enemy.destroy of the enemy object id
destroy(g, id) ==
  LET index == indexOf(g.gameObjects, id)
      enemyIndex == indexOf(Ids(g.enemies), id)
  IN [g EXCEPT !.gameObjects = IF index > 0 THEN splice(@, index) ELSE @,
               !.enemies = IF enemyIndex > 0 THEN splice(@, enemyIndex)
                           ELSE @]

\* Enemy.takeDamage(amount) of the enemy at position i of game.enemies
takeDamage(g, i, amount) ==
  LET enemy == g.enemies[i]
      damageAfterArmor == Max(0, amount - enemy.armor)
      health == enemy.health - damageAfterArmor
      g1 == [g EXCEPT !.enemies[i].health = health,
                      !.damage = [hit |-> TRUE, type |-> enemy.type,
                                  amount |-> amount, before |-> enemy.health,
                                  after |-> health]]
  IN IF health <= 0
     THEN destroy([g1 EXCEPT !.credits = @ + ENEMY_TYPES[enemy.type].credits],
                  enemy.id)
     ELSE g1

\* EnemySpawner.spawnEnemy(type)
ProtoSpawn(type) ==
  /\ game2d.nextId <= MaxProtoEnemies
  /\ game2d' = [Enemy(game2d, type) EXCEPT !.damage = NoDamage]
  /\ lastRemoval' = NoRemoval
  /\ UNCHANGED <<mainVars, entityVars, starbaseVars, economyVars,
                 historyVars, game, platforms, query>>

\* checkCollisions with one projectile within the size of enemy i
ProtoHit ==
  \E i \in DOMAIN game2d.enemies :
    /\ game2d' = takeDamage(game2d, i, BASE_DAMAGE)
    /\ lastRemoval' =
         IF Len(game2d'.enemies) < Len(game2d.enemies)
         THEN Removal("enemy", {game2d.enemies[i].id}, 0)
         ELSE NoRemoval
    /\ UNCHANGED <<mainVars, entityVars, starbaseVars, economyVars,
                   historyVars, game, platforms, query>>

\* Enemy.update of an enemy at the end of its path
ProtoPathEnd ==
  \E i \in DOMAIN game2d.enemies :
    /\ game2d' = [destroy(game2d, game2d.enemies[i].id)
                    EXCEPT !.damage = NoDamage]
    /\ lastRemoval' = Removal("enemy", {game2d.enemies[i].id}, 0)
    /\ UNCHANGED <<mainVars, entityVars, starbaseVars, economyVars,
                   historyVars, game, platforms, query>>

NextProto ==
  \/ \E type \in DOMAIN ENEMY_TYPES : ProtoSpawn(type)
  \/ ProtoHit
  \/ ProtoPathEnd

SpecProto == Init /\ [][NextProto]_vars

\* C2: every hit reduces the enemy's health by max(1, damage - armor), so by
\* at least 1 whatever the damage and the armor are.
C2_MinimumDamage ==
  game2d.damage.hit =>
    /\ game2d.damage.before - game2d.damage.after >= 1
    /\ game2d.damage.before - game2d.damage.after
         = effectiveDamage(game2d.damage.amount,
                           ENEMY_TYPES[game2d.damage.type].armor)

\* ---------------------------------------------------------------------------
\* Removal of projectiles (projectile.js), prototype enemies (enemy.js) and
\* platforms (platform.js).
PlatformTypes == {"laserBattery", "missileLauncher"}

\* the placement rules of platform.js, in world units
MIN_PLACEMENT_DISTANCE == 15
MAX_PLACEMENT_DISTANCE == 70
MIN_PLATFORM_SPACING == 10

\* createPlatform(type, position); obj is the identity of the new object
createPlatform(pl, obj, type, position) ==
  Append(pl, [id |-> obj, type |-> type, position |-> position, platformId |-> Len(pl), alive |-> TRUE])

\* the platform object after removePlatform(platform): alive = false
platformAfterRemoval(platform) == [platform EXCEPT !.alive = FALSE]

\* removePlatform(platform) of the platform object obj; the mutant splices
\* without the index test, and splice(-1, 1) takes the last element
removePlatformUnguarded(pl, obj) ==
  LET index == indexOf(Ids(pl), obj)
  IN IF index > 0 THEN splice(pl, index) ELSE splice(pl, Len(pl))
removePlatform(pl, obj) ==
  LET index == indexOf(Ids(pl), obj)
  IN IF index > 0 THEN splice(pl, index) ELSE pl

\* clearAllPlatforms: removePlatform of a copy's elements, then length = 0
clearAllPlatforms(pl) == <<>>

RemCreateProjectile ==
  /\ nextId <= MaxRemObjects
  /\ \E targetPos \in ProjCells :
       projectiles' = createProjectile(projectiles, nextId,
                                       fireProjectile(targetPos))
  /\ nextId' = nextId + 1
  /\ lastRemoval' = NoRemoval
  /\ UNCHANGED <<mainVars, enemies, starbaseVars, economyVars, historyVars,
                 game, game2d, platforms, query>>

\* removeProjectile(projectile, i) as updateProjectiles calls it
RemProjectile ==
  \E index \in DOMAIN projectiles :
    /\ projectiles' = removeProjectile(projectiles, index)
    /\ lastRemoval' = Removal("projectile", {projectiles[index].id}, index)
    /\ UNCHANGED <<mainVars, enemies, nextId, starbaseVars, economyVars,
                   historyVars, game, game2d, platforms, query>>

\* the same removeProjectile(projectile, i) call made a second time
RemProjectileAgain ==
  /\ lastRemoval.done
  /\ lastRemoval.kind = "projectile"
  /\ lastRemoval.index > 0
  /\ projectiles' = removeProjectile(projectiles, lastRemoval.index)
  /\ lastRemoval' = [lastRemoval EXCEPT !.before = Collections]
  /\ UNCHANGED <<mainVars, enemies, nextId, starbaseVars, economyVars,
                 historyVars, game, game2d, platforms, query>>

RemClearProjectiles ==
  /\ projectiles' = clearProjectiles(projectiles)
  /\ lastRemoval' = Removal("projectile", Range(Ids(projectiles)), 0)
  /\ UNCHANGED <<mainVars, enemies, nextId, starbaseVars, economyVars,
                 historyVars, game, game2d, platforms, query>>

\* enemy.destroy() of any enemy object constructed so far
ProtoDestroy ==
  \E id \in 1..(game2d.nextId - 1) :
    /\ game2d' = destroy(game2d, id)
    /\ lastRemoval' = Removal("enemy", {id}, 0)
    /\ UNCHANGED <<mainVars, entityVars, starbaseVars, economyVars,
                   historyVars, game, platforms, query>>

RemCreatePlatform ==
  /\ nextId <= MaxRemObjects
  /\ \E type \in PlatformTypes :
       platforms' = createPlatform(platforms, nextId, type, <<MIN_PLACEMENT_DISTANCE, 0>>)
  /\ nextId' = nextId + 1
  /\ lastRemoval' = NoRemoval
  /\ UNCHANGED <<mainVars, enemies, projectiles, starbaseVars, economyVars,
                 historyVars, game, game2d, query>>

RemPlatform ==
  \E index \in DOMAIN platforms :
    /\ platforms' = removePlatform(platforms, platforms[index].id)
    /\ lastRemoval' = [Removal("platform", {platforms[index].id}, 0) EXCEPT
                         !.objects = <<platformAfterRemoval(platforms[index])>>]
    /\ UNCHANGED <<mainVars, entityVars, starbaseVars, economyVars,
                   historyVars, game, game2d, query>>

\* the same removePlatform(platform) call made a second time
RemPlatformAgain ==
  /\ lastRemoval.done
  /\ lastRemoval.kind = "platform"
  /\ Cardinality(lastRemoval.ids) = 1
  /\ \E obj \in lastRemoval.ids : platforms' = removePlatform(platforms, obj)
  /\ lastRemoval' = [lastRemoval EXCEPT
                       !.before = Collections,
                       !.objects = [k \in DOMAIN @ |-> platformAfterRemoval(@[k])]]
  /\ UNCHANGED <<mainVars, entityVars, starbaseVars, economyVars,
                 historyVars, game, game2d, query>>

RemClearAllPlatforms ==
  /\ platforms' = clearAllPlatforms(platforms)
  /\ lastRemoval' = [Removal("allPlatforms", Range(Ids(platforms)), 0) EXCEPT
                       !.objects = [k \in DOMAIN platforms |-> platformAfterRemoval(platforms[k])]]
  /\ UNCHANGED <<mainVars, entityVars, starbaseVars, economyVars,
                 historyVars, game, game2d, query>>

NextRemove ==
  \/ RemCreateProjectile
  \/ RemProjectile
  \/ RemProjectileAgain
  \/ RemClearProjectiles
  \/ ProtoSpawn("FIGHTER")
  \/ ProtoDestroy
  \/ RemCreatePlatform
  \/ RemPlatform
  \/ RemPlatformAgain
  \/ RemClearAllPlatforms

SpecRemove == Init /\ [][NextRemove]_vars

\* the collections a removal of the given kind works on
RemovedFrom(kind) ==
  IF kind = "projectile" THEN {"projectiles"}
  ELSE IF kind = "enemy" THEN {"gameObjects", "enemies"}
  ELSE {"platforms"}

Without(seq, ids) == SelectSeq(seq, LAMBDA x : x \notin ids)

\* C10: after a removal call every collection is what it was before the call
\* without the removed entity: the entity is gone from all of them, nothing
\* else is, and a call on an entity already removed changes no collection.
C10_RemovalOnce ==
  lastRemoval.done =>
    \A c \in DOMAIN Collections :
      Collections[c] =
        Without(lastRemoval.before[c],
                IF c \in RemovedFrom(lastRemoval.kind) THEN lastRemoval.ids
                ELSE {})

\* ---------------------------------------------------------------------------
\* Claims on the collision resolver and the flight of a projectile, checked
\* in the projectile specification.

\* distance of enemy e's centre from the segment travelled in iteration r
SegmentDistance(r, e) ==
  distanceTo(closestPointOnSegment(r.oldPos, r.newPos, e.pos), e.pos)

\* hit radius of e, in two-hundredths of a cell: 1.5 times its size
HitRadius200(e) == 3 * EnemyConfig[e.type].size * Unit

\* C11: an iteration of the projectile loop reports a hit iff some alive
\* enemy's centre is strictly closer to the travelled segment than that
\* enemy's hit radius; an enemy exactly at its hit radius is not hit.
C11_HitIffWithinRadius ==
  /\ \A k \in DOMAIN tick.hits :
       \E i \in DOMAIN tick.hits[k].registry :
         LET e == tick.hits[k].registry[i] IN
         e.alive /\ 200 * SegmentDistance(tick.hits[k], e) < HitRadius200(e)
  /\ \A k \in DOMAIN tick.misses :
       \A i \in DOMAIN tick.misses[k].registry :
         LET e == tick.misses[k].registry[i] IN
         e.alive => 200 * SegmentDistance(tick.misses[k], e) >= HitRadius200(e)

\* a projectile moved, an alive enemy was exactly at its hit radius from the
\* segment, and no hit was reported
C11_Witness ==
  /\ tick.update
  /\ \E k \in DOMAIN tick.misses :
       /\ tick.misses[k].oldPos # tick.misses[k].newPos
       /\ \E i \in DOMAIN tick.misses[k].registry :
            LET e == tick.misses[k].registry[i] IN
            e.alive /\ 200 * SegmentDistance(tick.misses[k], e) = HitRadius200(e)

\* where createProjectile puts a projectile of the starbase
CreationCell == StarbasePosition + BARREL_TIP * Unit

\* every advancing tick of the iteration's projectile was a tick of MaxDelta
FullTicks(r) == r.distanceTraveled = r.ticks * TickTravel

\* enemy e stands n ticks of travel away from where projectiles are created
\* and its hit radius is smaller than the travel of one tick
TicksAway(e, n) ==
  /\ e.pos = CreationCell + n * TickTravel
  /\ HitRadius200(e) < 200 * TickTravel

\* C12: a projectile fired straight at a stationary enemy that is n ticks of
\* travel away, with a hit radius below the per-tick travel, hits it in its
\* n-th tick and in no other: a hit on such an enemy is in tick n, and no
\* projectile misses in tick n or later while the enemy is alive.
C12_HitInNthTick ==
  \A n \in 1..3 :
    /\ \A k \in DOMAIN tick.hits :
         LET h == tick.hits[k] IN
         \A i \in DOMAIN h.registry :
           (/\ h.registry[i].id = h.enemy
            /\ TicksAway(h.registry[i], n)
            /\ FullTicks(h)) => h.ticks = n
    /\ \A k \in DOMAIN tick.misses :
         LET m == tick.misses[k] IN
         \A i \in DOMAIN m.registry :
           (/\ m.registry[i].alive
            /\ TicksAway(m.registry[i], n)
            /\ FullTicks(m)) => m.ticks < n

\* the spec's case: the enemy is 3 ticks away and is hit in the 3rd tick,
\* after the projectile of that hit missed it in ticks 1 and 2
C12_Witness ==
  /\ tick.update
  /\ \E k \in DOMAIN tick.hits :
       LET h == tick.hits[k] IN
       /\ FullTicks(h)
       /\ h.ticks = 3
       /\ \E i \in DOMAIN h.registry :
            h.registry[i].id = h.enemy /\ TicksAway(h.registry[i], 3)

\* ---------------------------------------------------------------------------
\* the projectiles of the registry with identity id
Tracked(id) == {k \in DOMAIN projectiles : projectiles[k].id = id}

\* after a tick: no projectile of the registry is beyond MAX_DISTANCE, a
\* projectile that hit nothing is still there iff it is not beyond it, and
\* it is among no hits
C13_RangeState ==
  /\ \A k \in DOMAIN projectiles :
       projectiles[k].distanceTraveled <= MAX_DISTANCE * Unit
  /\ \A k \in DOMAIN tick.misses :
       LET m == tick.misses[k] IN
       /\ Tracked(m.projectile) # {} <=> m.distanceTraveled <= MAX_DISTANCE * Unit
       /\ m.projectile \notin Range(hitLog)
       /\ \A j \in DOMAIN tick.hits : tick.hits[j].projectile # m.projectile

\* a tick without a hit that completes no wave awards nothing
C13_RangeStep ==
  (tick'.update /\ tick'.hits = <<>> /\ ~tick'.completed) =>
    /\ credits' = credits
    /\ score' = score
    /\ totalKills' = totalKills
    /\ shotsHit' = shotsHit

\* C13: a projectile that hit nothing is removed in the first tick after
\* which its distanceTraveled is strictly greater than MAX_DISTANCE, whatever
\* the weapon's range is; at exactly MAX_DISTANCE it stays; a removal for
\* range is no hit and awards nothing.
C13_RangeRemoval == [](C13_RangeState) /\ [][C13_RangeStep]_vars

\* a projectile that stayed in the registry with distanceTraveled exactly
\* MAX_DISTANCE, beyond the starbase's range, is removed in the next
\* advancing tick, which has no hit
C13_Witness ==
  /\ tick.update
  /\ tick.hits = <<>>
  /\ MAX_DISTANCE > STARBASE_RANGE
  /\ \E k \in DOMAIN tick.misses :
       LET m == tick.misses[k] IN
       /\ m.distanceTraveled > MAX_DISTANCE * Unit
       /\ m.distanceTraveled - Abs(m.newPos - m.oldPos) = MAX_DISTANCE * Unit
       /\ Tracked(m.projectile) = {}

\* ------------------------------------------------ specification SpecPath
\* path.js: a path is built from waypoints and evaluated at a progress
MaxWaypoints == 3
PathCells == {0, 2, 5}

\* createPath's loop: segmentLengths[i] = waypoints[i].distanceTo(waypoints[i+1])
segmentLengthsOf(waypoints) == [i \in 1..(Len(waypoints) - 1) |-> distanceTo(waypoints[i], waypoints[i + 1])]

RECURSIVE SumSeq(_)
SumSeq(s) == IF s = <<>> THEN 0 ELSE Head(s) + SumSeq(Tail(s))

\* createPath(name, waypoints): no condition on the number of waypoints
createPath(waypoints) == [waypoints |-> waypoints, segmentLengths |-> segmentLengthsOf(waypoints), totalLength |-> SumSeq(segmentLengthsOf(waypoints))]

\* the segment search of getPositionOnPath; i and segmentIndex count from 0
RECURSIVE findSegment(_, _, _, _, _)
findSegment(lengths, i, segmentIndex, accumulatedDistance, targetDistance) ==
  IF i >= Len(lengths)
  THEN [segmentIndex |-> segmentIndex, accumulatedDistance |-> accumulatedDistance]
  ELSE IF accumulatedDistance + lengths[i + 1] >= targetDistance
       THEN [segmentIndex |-> i, accumulatedDistance |-> accumulatedDistance]
       ELSE findSegment(lengths, i + 1, i, accumulatedDistance + lengths[i + 1], targetDistance)

\* catmullRomInterpolation at t = num / den, as a fraction over 2 * den^3
catmullRomInterpolation(p0, p1, p2, p3, num, den) ==
  [n |-> 2 * p1 * den * den * den
         + (p2 - p0) * num * den * den
         + (2 * p0 - 5 * p1 + 4 * p2 - p3) * num * num * den
         + (3 * p1 - p0 - 3 * p2 + p3) * num * num * num,
   d |-> 2 * den * den * den]

NoPosition == [error |-> FALSE, nan |-> FALSE, segmentIndex |-> 0, num |-> 0, den |-> 1, n |-> 0, d |-> 1]

\* getPositionOnPath for a stored path, at targetDistance = progress *
\* totalLength. A division by a missing or zero segment length is NaN
\* (the numerator is then 0), and reading a waypoint of an empty list throws.
getPositionOnWaypoints(path, targetDistance) ==
  LET seg == findSegment(path.segmentLengths, 0, 0, 0, targetDistance)
      k == seg.segmentIndex
      last == Len(path.waypoints) - 1
      den == IF k + 1 \in DOMAIN path.segmentLengths THEN path.segmentLengths[k + 1] ELSE 0
      num == targetDistance - seg.accumulatedDistance
      p0 == path.waypoints[Max(0, k - 1) + 1]
      p1 == path.waypoints[k + 1]
      p2 == path.waypoints[Min(last, k + 1) + 1]
      p3 == path.waypoints[Min(last, k + 2) + 1]
  IN IF path.waypoints = <<>>
     THEN [NoPosition EXCEPT !.error = TRUE]
     ELSE IF den = 0
          THEN [NoPosition EXCEPT !.nan = TRUE, !.segmentIndex = k, !.num = num, !.den = den]
          ELSE [error |-> FALSE, nan |-> FALSE, segmentIndex |-> k, num |-> num, den |-> den,
                n |-> catmullRomInterpolation(p0, p1, p2, p3, num, den).n,
                d |-> catmullRomInterpolation(p0, p1, p2, p3, num, den).d]

WaypointLists == UNION {[1..n -> PathCells] : n \in 0..MaxWaypoints}

NoPathQuery == [done |-> FALSE, waypoints |-> <<>>, path |-> createPath(<<>>), targetDistance |-> 0, result |-> NoPosition]

InitPath ==
  /\ ModularAtRest
  /\ game = NewGame
  /\ game2d = NewGame2d
  /\ platforms = <<>>
  /\ lastRemoval = NoRemoval
  /\ query \in UNION {{[NoPathQuery EXCEPT !.waypoints = w, !.targetDistance = t] :
                          t \in 0..createPath(w).totalLength} :
                        w \in WaypointLists}

\* createPath(name, waypoints) followed by getPositionOnPath(name, progress)
PathQuery ==
  /\ ~query.done
  /\ query' = [query EXCEPT
                 !.done = TRUE,
                 !.path = createPath(query.waypoints),
                 !.result = getPositionOnWaypoints(createPath(query.waypoints), query.targetDistance)]
  /\ UNCHANGED <<mainVars, entityVars, starbaseVars, economyVars,
                 historyVars, game, game2d, platforms, lastRemoval>>

NextPath == PathQuery

SpecPath == InitPath /\ [][NextPath]_vars

\* arc length from the first waypoint to waypoint k (counted from 0)
CumulativeLength(path, k) == SumSeq(SubSeq(path.segmentLengths, 1, k))

\* C14: for every path of at least two waypoints, the position at the
\* progress of waypoint k (the lengths of segments 0..k-1 over the total
\* length; 0 for the first and 1 for the last waypoint) is exactly that
\* waypoint, and at every progress the located segment index lies in
\* 0..waypoints-2 with a fraction within the segment in [0, 1].
C14_WaypointsExact ==
  (query.done /\ Len(query.path.waypoints) >= 2) =>
    /\ ~query.result.error
    /\ ~query.result.nan
    /\ query.result.segmentIndex \in 0..(Len(query.path.waypoints) - 2)
    /\ 0 <= query.result.num
    /\ query.result.num <= query.result.den
    /\ \A k \in 0..(Len(query.path.waypoints) - 1) :
         query.targetDistance = CumulativeLength(query.path, k) =>
           query.result.n = query.result.d * query.path.waypoints[k + 1]

\* C15: a path of fewer than two waypoints is rejected when it is created,
\* so no such path is ever stored and evaluated.
C15_FailFast ==
  query.done => Len(query.path.waypoints) >= 2

\* --------------------------------------------- specification SpecEntity
\* The entity-class game (game.js second Game class, entities.js): one
\* Game.update per frame on a line through the planet centre, in cells of
\* 0.01 world units; every frame's capped deltaTime is 0.1.
MaxEntityTicks == 6
MaxEntityEnemies == 2
EntityUnit == 10 * Unit
PLANET_RADIUS == 30
STARBASE_RADIUS == 5
CANNON_DAMAGE == 50
CANNON_FIRE_RATE == 1
LASER_SPEED == 5
MISSILE_SPEED == 3
MISSILE_DAMAGE == 100
MISSILE_RANGE == 150
MISSILE_FIRE_RATE == 2
PLANET_HIT_DAMAGE == 10
PLANET_HEALTH == 100

\* CONFIG.enemies; speed in cells per frame, size in cells
EntityEnemyConfig ==
  [fighter |-> [health |-> 100, armor |-> 1, speed |-> 8, credits |-> 5, size |-> 3 * EntityUnit],
   bomber  |-> [health |-> 100, armor |-> 5, speed |-> 6, credits |-> 10, size |-> 4 * EntityUnit]]

\* projectile sizes of the Laser and Missile constructors, in half units
ProjectileSize == [laser |-> EntityUnit \div 2, missile |-> EntityUnit]

\* new Laser(scene, spawnPos, direction, damage, range): fireCannon hands over
\* the direction vector it has scaled to length size * 2 in place
Laser(id, position, direction) == [id |-> id, kind |-> "laser", position |-> position, off |-> 0, direction |-> direction, target |-> NoEnemy, damage |-> CANNON_DAMAGE, range |-> CANNON_RANGE * EntityUnit, distanceTraveled |-> 0, initialPosition |-> position, isAlive |-> TRUE]

\* new Missile(scene, spawnPos, target, damage, range)
Missile(id, position, target) == [id |-> id, kind |-> "missile", position |-> position, off |-> 0, direction |-> 0, target |-> target, damage |-> MISSILE_DAMAGE, range |-> MISSILE_RANGE * EntityUnit, distanceTraveled |-> 0, initialPosition |-> position, isAlive |-> TRUE]

\* position of the enemy with an id in the list, 0 when it was spliced out
EnemyIndex(w, id) == IF \E i \in DOMAIN w.enemies : w.enemies[i].id = id THEN CHOOSE i \in DOMAIN w.enemies : w.enemies[i].id = id ELSE 0

\* Enemy.takeDamage(amount) on enemies[i], called for projectile p; the
\* damage log records whether p was alive when it dealt the damage
EnemyTakeDamage(w, i, p) ==
  LET e == w.enemies[i]
      actualDamage == Max(1, p.damage - EntityEnemyConfig[e.type].armor)
      destroyed == e.health - actualDamage <= 0
  IN [w EXCEPT !.enemies[i].health = @ - actualDamage,
               !.enemies[i].isAlive = IF destroyed THEN FALSE ELSE @,
               !.credits = @ + (IF destroyed THEN EntityEnemyConfig[e.type].credits ELSE 0),
               !.damageLog = Append(@, [projectile |-> p.id, enemy |-> e.id, tick |-> w.ticks, projectileAlive |-> p.isAlive, destroyed |-> destroyed])]

\* position.distanceTo(enemy.position) < enemy.size + projectile.size, for a
\* projectile that is off cells away from the line of the enemies
Collides(p, e) == (p.position - e.pos) * (p.position - e.pos) + p.off * p.off < (EntityEnemyConfig[e.type].size + ProjectileSize[p.kind]) * (EntityEnemyConfig[e.type].size + ProjectileSize[p.kind])

\* Laser.update(deltaTime)
LaserUpdate(w, j) ==
  LET p == w.projectiles[j]
      moveAmount == (LASER_SPEED * EntityUnit) \div 10
      traveled == p.distanceTraveled + moveAmount
  IN [w EXCEPT !.projectiles[j].position = @ + p.direction * moveAmount,
               !.projectiles[j].distanceTraveled = traveled,
               !.projectiles[j].isAlive = IF traveled >= p.range THEN FALSE ELSE @]

\* Missile.update(deltaTime): without a live target the missile leaves the
\* line along its mesh direction; otherwise it homes in and hits the target
MissileUpdate(w, j) ==
  LET p == w.projectiles[j]
      moveAmount == (MISSILE_SPEED * EntityUnit) \div 10
      t == EnemyIndex(w, p.target)
      homing == t # 0 /\ w.enemies[t].isAlive
      position == IF homing THEN p.position + normalize(w.enemies[t].pos - p.position) * moveAmount ELSE p.position
      off == IF homing THEN p.off ELSE p.off + moveAmount
      traveled == IF homing THEN Abs(position - p.initialPosition) ELSE p.distanceTraveled + moveAmount
      moved == [p EXCEPT !.position = position, !.off = off, !.distanceTraveled = traveled]
      w1 == [w EXCEPT !.projectiles[j] = moved]
  IN IF homing /\ Collides(moved, w.enemies[t])
     THEN [EnemyTakeDamage(w1, t, moved) EXCEPT !.projectiles[j].isAlive = FALSE]
     ELSE [w1 EXCEPT !.projectiles[j].isAlive = IF traveled >= p.range THEN FALSE ELSE @]

\* Game.checkProjectileCollisions(projectile): the first live enemy in reach
RECURSIVE checkProjectileCollisions(_, _, _)
checkProjectileCollisions(w, j, i) ==
  IF i > Len(w.enemies) THEN w
  ELSE IF ~w.enemies[i].isAlive THEN checkProjectileCollisions(w, j, i + 1)
  ELSE IF Collides(w.projectiles[j], w.enemies[i])
       THEN LET w1 == EnemyTakeDamage(w, i, w.projectiles[j])
            IN [w1 EXCEPT !.projectiles[j].isAlive = FALSE,
                          !.levelDestroyed = @ + (IF ~w1.enemies[i].isAlive THEN 1 ELSE 0),
                          !.remainingEnemies = @ - (IF ~w1.enemies[i].isAlive THEN 1 ELSE 0)]
       ELSE checkProjectileCollisions(w, j, i + 1)

\* the projectile loop of Game.update, from the last index down
RECURSIVE updateEntityProjectiles(_, _)
updateEntityProjectiles(w, j) ==
  IF j = 0 THEN w
  ELSE IF w.projectiles[j].isAlive
       THEN updateEntityProjectiles(
              checkProjectileCollisions(
                IF w.projectiles[j].kind = "laser" THEN LaserUpdate(w, j) ELSE MissileUpdate(w, j),
                j, 1),
              j - 1)
       ELSE updateEntityProjectiles([w EXCEPT !.projectiles = splice(@, j)], j - 1)

\* Enemy.update(deltaTime): towards the planet centre; one that reaches the
\* planet hits it and is destroyed
EnemyUpdate(w, i) ==
  LET e == w.enemies[i]
      position == e.pos - normalize(e.pos) * EntityEnemyConfig[e.type].speed
      reached == Abs(position) <= PLANET_RADIUS * EntityUnit
  IN [w EXCEPT !.enemies[i].pos = position,
               !.enemies[i].isAlive = IF reached THEN FALSE ELSE @,
               !.planetHealth = @ - (IF reached THEN PLANET_HIT_DAMAGE ELSE 0),
               !.isGameRunning = IF reached /\ w.planetHealth - PLANET_HIT_DAMAGE <= 0 THEN FALSE ELSE @]

\* the enemy loop of Game.update, from the last index down
RECURSIVE updateEntityEnemies(_, _)
updateEntityEnemies(w, i) ==
  IF i = 0 THEN w
  ELSE IF w.enemies[i].isAlive
       THEN updateEntityEnemies(EnemyUpdate(w, i), i - 1)
       ELSE updateEntityEnemies([w EXCEPT !.enemies = splice(@, i)], i - 1)

\* Starbase.fireCannon
fireCannon(w) ==
  [w EXCEPT !.projectiles = Append(@, Laser(w.nextId, STARBASE_ORBIT_RADIUS * EntityUnit + w.aim * 2 * STARBASE_RADIUS * EntityUnit, w.aim * 2 * STARBASE_RADIUS)),
            !.nextId = @ + 1,
            !.cannonCooldown = CANNON_FIRE_RATE * Second]

\* Starbase.fireMissile
fireMissile(w) ==
  LET target == findClosestEnemy(w.enemies, STARBASE_ORBIT_RADIUS * EntityUnit, TRUE, CANNON_RANGE * EntityUnit)
  IN IF target = NoEnemy THEN w
     ELSE [w EXCEPT !.projectiles = Append(@, Missile(w.nextId, STARBASE_ORBIT_RADIUS * EntityUnit, target)),
                    !.nextId = @ + 1,
                    !.missileCooldown = MISSILE_FIRE_RATE * Second]

\* Starbase.update(deltaTime): cooldowns, then the automatic fire
starbaseUpdate(w) ==
  LET w1 == [w EXCEPT !.cannonCooldown = IF @ > 0 THEN @ - MaxDelta ELSE @,
                      !.missileCooldown = IF @ > 0 /\ w.missileLauncher THEN @ - MaxDelta ELSE @]
      w2 == IF w1.cannonCooldown <= 0 THEN fireCannon(w1) ELSE w1
  IN IF w2.missileLauncher /\ w2.missileCooldown <= 0 THEN fireMissile(w2) ELSE w2

\* Level.update(deltaTime) with the spawn queue used up
entityLevelUpdate(w) ==
  IF w.levelComplete THEN w
  ELSE IF Len(w.enemies) = 0
       THEN [w EXCEPT !.levelComplete = TRUE, !.isGameRunning = FALSE]
       ELSE w

\* Game.update(deltaTime)
entityUpdate(w) ==
  LET w1 == starbaseUpdate(entityLevelUpdate([w EXCEPT !.ticks = @ + 1]))
      w2 == updateEntityEnemies(w1, Len(w1.enemies))
  IN updateEntityProjectiles(w2, Len(w2.projectiles))

EntityCells == {STARBASE_ORBIT_RADIUS * EntityUnit + 430, STARBASE_ORBIT_RADIUS * EntityUnit + 1600, STARBASE_ORBIT_RADIUS * EntityUnit - 1980}
EntityTypes == {"fighter", "bomber"}

EntityEnemy(id, type, position) == [id |-> id, type |-> type, pos |-> position, health |-> EntityEnemyConfig[type].health, isAlive |-> TRUE]

EntityRegistries == UNION {{[i \in 1..n |-> EntityEnemy(i, f[i][1], f[i][2])] : f \in [1..n -> EntityTypes \X EntityCells]} : n \in 0..MaxEntityEnemies}

\* a running game in the middle of a level whose enemies have all spawned
EntityGame(es, aim, missileLauncher) == [enemies |-> es, projectiles |-> <<>>, nextId |-> MaxEntityEnemies + 1, aim |-> aim, missileLauncher |-> missileLauncher, cannonCooldown |-> 0, missileCooldown |-> 0, credits |-> 0, planetHealth |-> PLANET_HEALTH, levelComplete |-> FALSE, levelDestroyed |-> 0, remainingEnemies |-> Len(es), isGameRunning |-> TRUE, ticks |-> 0, damageLog |-> <<>>]

InitEntity ==
  /\ ModularAtRest
  /\ game2d = NewGame2d
  /\ platforms = <<>>
  /\ query = NoQuery
  /\ lastRemoval = NoRemoval
  /\ game \in {EntityGame(es, aim, ml) : es \in EntityRegistries, aim \in {-1, 1}, ml \in BOOLEAN}

\* one frame of Game.animate while the game is running
EntityFrame ==
  /\ game.isGameRunning
  /\ game.ticks < MaxEntityTicks
  /\ game' = entityUpdate(game)
  /\ UNCHANGED <<mainVars, entityVars, starbaseVars, economyVars,
                 historyVars, game2d, platforms, query, lastRemoval>>

NextEntity == EntityFrame

SpecEntity == InitEntity /\ [][NextEntity]_vars

\* C16: a projectile of the entity-class game applies damage at most once,
\* to at most one enemy, and a destroyed projectile applies no damage, not
\* even later in the tick in which it was destroyed.
C16_DamageOnce ==
  \A a, b \in DOMAIN game.damageLog :
    /\ game.damageLog[a].projectileAlive
    /\ game.damageLog[a].projectile = game.damageLog[b].projectile => a = b

\* ---------------------------------------------------------------------------
\* Claims on the platform array, checked in the removal specification.

\* the platforms of a list whose object is not among ids
PlatformsWithout(pl, ids) == SelectSeq(pl, LAMBDA p : p.id \notin ids)

PlatformRemoved == lastRemoval.done /\ lastRemoval.kind \in {"platform", "allPlatforms"}

C17_ArrayState ==
  /\ \A i, j \in DOMAIN platforms :
       /\ platforms[i].alive
       /\ platforms[i].id = platforms[j].id => i = j
  /\ PlatformRemoved =>
       /\ \A k \in DOMAIN lastRemoval.objects :
            /\ ~lastRemoval.objects[k].alive
            /\ lastRemoval.objects[k].id \notin Range(Ids(platforms))
       /\ lastRemoval.kind = "allPlatforms" =>
            /\ platforms = <<>>
            /\ Range(Ids(lastRemoval.objects)) = Range(lastRemoval.before.platforms)

C17_ArrayStep ==
  \/ platforms' = platforms
  \/ \E p \in Range(platforms') :
       /\ p.id \notin Range(Ids(platforms))
       /\ platforms' = Append(platforms, p)
  \/ /\ lastRemoval'.done
     /\ lastRemoval'.kind \in {"platform", "allPlatforms"}
     /\ platforms' = PlatformsWithout(platforms, lastRemoval'.ids)

\* C17: the platforms array holds exactly the platforms created and not
\* removed, each once and with alive = true: a creation appends one new
\* platform, removePlatform takes out the platform it is called on and
\* nothing else and leaves it with alive = false, and clearAllPlatforms
\* leaves the array empty and every platform it held with alive = false.
C17_PlatformArray == [](C17_ArrayState) /\ [][C17_ArrayStep]_vars

\* a platform has been removed while another one stays in the array
C17_Witness ==
  /\ lastRemoval.done
  /\ lastRemoval.kind = "platform"
  /\ Len(lastRemoval.objects) = 1
  /\ Len(platforms) >= 1

\* ----------------------------------------------- specification SpecPlace
\* Platform placement (platform.js, input.js) on the orbital plane y = 0;
\* a position is a pair <<x, z>> of world units. placementState.active is
\* placementActive, the other fields of placementState are in query.
MaxPlaced == 3

\* squared distance of two positions
distanceToSquared(a, b) == (a[1] - b[1]) * (a[1] - b[1]) + (a[2] - b[2]) * (a[2] - b[2])

\* checkPlatformOverlap(position): nearestDistance < MIN_PLATFORM_SPACING for
\* the nearest alive platform; without one nearestDistance stays Infinity
checkPlatformOverlap(pl, pos) ==
  \E i \in DOMAIN pl :
    /\ pl[i].alive
    /\ \A j \in DOMAIN pl : pl[j].alive => distanceToSquared(pos, pl[i].position) <= distanceToSquared(pos, pl[j].position)
    /\ distanceToSquared(pos, pl[i].position) < MIN_PLATFORM_SPACING * MIN_PLATFORM_SPACING

\* isValidPlacementPosition(position).valid; the mutant leaves out the
\* overlap check
isValidPlacementPositionRangeOnly(pl, pos) ==
  LET horizontalDistanceSquared == distanceToSquared(pos, <<0, 0>>)
  IN IF horizontalDistanceSquared < MIN_PLACEMENT_DISTANCE * MIN_PLACEMENT_DISTANCE THEN FALSE
     ELSE IF horizontalDistanceSquared > MAX_PLACEMENT_DISTANCE * MAX_PLACEMENT_DISTANCE THEN FALSE
     ELSE TRUE
isValidPlacementPosition(pl, pos) ==
  LET horizontalDistanceSquared == distanceToSquared(pos, <<0, 0>>)
  IN IF horizontalDistanceSquared < MIN_PLACEMENT_DISTANCE * MIN_PLACEMENT_DISTANCE THEN FALSE
     ELSE IF horizontalDistanceSquared > MAX_PLACEMENT_DISTANCE * MAX_PLACEMENT_DISTANCE THEN FALSE
     ELSE IF checkPlatformOverlap(pl, pos) THEN FALSE
     ELSE TRUE

NoConfirm == [result |-> "none", platforms |-> <<>>]

\* placementState as the module is loaded
NoPlacement == [selectedType |-> "none", previewPosition |-> <<0, 0>>, isValidPosition |-> FALSE, confirm |-> NoConfirm]

\* places the mouse can point at: the planet centre, just inside and on the
\* inner limit, 9 and 10 units from it, on and beyond the outer limit, and
\* a second place on the inner limit 10 units from <<15, 20>>
PlacementCells == {<<0, 0>>, <<MIN_PLACEMENT_DISTANCE - 1, 0>>, <<MIN_PLACEMENT_DISTANCE, 0>>, <<MIN_PLACEMENT_DISTANCE + MIN_PLATFORM_SPACING - 1, 0>>, <<MIN_PLACEMENT_DISTANCE + MIN_PLATFORM_SPACING, 0>>, <<MAX_PLACEMENT_DISTANCE, 0>>, <<MAX_PLACEMENT_DISTANCE + 1, 0>>, <<9, 12>>}

\* removePlacementPreview
removePlacementPreview(st) == [st EXCEPT !.selectedType = "none", !.isValidPosition = FALSE]

\* updatePlacementPreview(position) in placement mode
updatePlacementPreview(st, pl, pos) == [st EXCEPT !.previewPosition = pos, !.isValidPosition = isValidPlacementPosition(pl, pos)]

InitPlace ==
  /\ ModularAtRest
  /\ game = NewGame
  /\ game2d = NewGame2d
  /\ platforms = <<>>
  /\ lastRemoval = NoRemoval
  /\ query = NoPlacement

PlaceUnchanged == UNCHANGED <<currentState, currentWave, enemiesSpawnedThisWave, enemiesToSpawnThisWave, spawnTimer, waveEnemyQueue, waveTransitionTimer, clock, enemies, projectiles, starbaseVars, economyVars, historyVars, game, game2d, lastRemoval>>

\* enterPlacementMode(platformType): the preview is created and moved to the
\* mouse position when the mouse ray meets the plane
EnterPlacementMode ==
  \E type \in PlatformTypes, hit \in BOOLEAN, pos \in PlacementCells :
    /\ placementActive' = TRUE
    /\ query' = LET st == [removePlacementPreview(query) EXCEPT !.selectedType = type, !.confirm = NoConfirm]
                IN IF hit THEN updatePlacementPreview(st, platforms, pos) ELSE st
    /\ UNCHANGED <<platforms, nextId>>
    /\ PlaceUnchanged

\* onMouseMove in placement mode: updatePlacementPreviewPosition
PlacementMouseMove ==
  \E pos \in PlacementCells :
    /\ placementActive
    /\ query' = [updatePlacementPreview(query, platforms, pos) EXCEPT !.confirm = NoConfirm]
    /\ UNCHANGED <<placementActive, platforms, nextId>>
    /\ PlaceUnchanged

\* handlePlacementClick: confirmPlacement()
ConfirmPlacement ==
  /\ nextId <= MaxPlaced
  /\ IF ~placementActive \/ query.selectedType = "none"
     THEN /\ query' = [query EXCEPT !.confirm = NoConfirm]
          /\ UNCHANGED <<placementActive, platforms, nextId>>
     ELSE IF ~isValidPlacementPosition(platforms, query.previewPosition)
     THEN /\ query' = [query EXCEPT !.confirm = [result |-> "rejected", platforms |-> platforms]]
          /\ UNCHANGED <<placementActive, platforms, nextId>>
     ELSE /\ platforms' = createPlatform(platforms, nextId, query.selectedType, query.previewPosition)
          /\ nextId' = nextId + 1
          /\ placementActive' = FALSE
          /\ query' = [removePlacementPreview(query) EXCEPT !.confirm = [result |-> "placed", platforms |-> platforms]]
  /\ PlaceUnchanged

\* cancelPlacement()
CancelPlacement ==
  /\ placementActive' = FALSE
  /\ query' = [(IF placementActive THEN removePlacementPreview(query) ELSE query) EXCEPT !.confirm = NoConfirm]
  /\ UNCHANGED <<platforms, nextId>>
  /\ PlaceUnchanged

\* removePlatform(platform) of a placed platform
PlaceRemovePlatform ==
  \E index \in DOMAIN platforms :
    /\ platforms' = removePlatform(platforms, platforms[index].id)
    /\ query' = [query EXCEPT !.confirm = NoConfirm]
    /\ UNCHANGED <<placementActive, nextId>>
    /\ PlaceUnchanged

NextPlace ==
  \/ EnterPlacementMode
  \/ PlacementMouseMove
  \/ ConfirmPlacement
  \/ CancelPlacement
  \/ PlaceRemovePlatform

SpecPlace == InitPlace /\ [][NextPlace]_vars

\* C18: every platform placed by confirmPlacement lies at a horizontal
\* distance of 15 to 70 (both included) from the planet centre and at least
\* 10 from every other alive platform, and a confirmPlacement on an invalid
\* position creates no platform and leaves the placement mode active.
C18_ValidPlacement ==
  /\ \A i \in DOMAIN platforms :
       /\ distanceToSquared(platforms[i].position, <<0, 0>>) >= MIN_PLACEMENT_DISTANCE * MIN_PLACEMENT_DISTANCE
       /\ distanceToSquared(platforms[i].position, <<0, 0>>) <= MAX_PLACEMENT_DISTANCE * MAX_PLACEMENT_DISTANCE
       /\ \A j \in DOMAIN platforms :
            (j # i /\ platforms[j].alive) => distanceToSquared(platforms[i].position, platforms[j].position) >= MIN_PLATFORM_SPACING * MIN_PLATFORM_SPACING
  /\ query.confirm.result = "rejected" =>
       /\ platforms = query.confirm.platforms
       /\ placementActive

\* two platforms stand exactly 10 apart, one on the inner limit, and a
\* confirmPlacement has just been rejected
C18_Witness ==
  /\ query.confirm.result = "rejected"
  /\ \E i, j \in DOMAIN platforms :
       /\ distanceToSquared(platforms[i].position, platforms[j].position) = MIN_PLATFORM_SPACING * MIN_PLATFORM_SPACING
       /\ distanceToSquared(platforms[i].position, <<0, 0>>) = MIN_PLACEMENT_DISTANCE * MIN_PLACEMENT_DISTANCE

\* ---------------------------------------------------------------------------
\* Claims on the accuracy statistics, checked in the game specification.

\* C19: shotsHit never exceeds shotsFired, so getAccuracy() is a percentage
\* in 0..100: every hit counted belongs to a projectile whose shot was
\* counted in the same game, and no projectile is counted as a hit twice.
C19_Accuracy ==
  /\ shotsHit <= shotsFired
  /\ getAccuracy(shotsFired, shotsHit) \in 0..100
  /\ Len(hitLog) = shotsHit
  /\ \A a, b \in DOMAIN hitLog : hitLog[a] = hitLog[b] => a = b
  /\ \A a \in DOMAIN hitLog : hitLog[a] \in 1..(nextId - 1)

\* a second game has counted a hit while a wave was in progress
C19_Witness ==
  /\ games = MaxGames
  /\ shotsHit >= 1
  /\ shotsFired > shotsHit

\* ------------------------------------------------ specification SpecAnimate
\* The frame loop of the prototype game (game.js first Game class): the
\* path of an enemy has ProtoPathLength points, one update apart.
ProtoPathLength == 2

\* Enemy.update() of the enemy object id
ProtoEnemyUpdate(g, id) ==
  LET i == indexOf(Ids(g.enemies), id)
  IN IF g.enemies[i].currentPathIndex >= ProtoPathLength - 1
     THEN destroy(g, id)
     ELSE [g EXCEPT !.enemies[i].currentPathIndex = @ + 1]

\* for (const obj of this.gameObjects) obj.update(): the array iterator
\* reads gameObjects[i] and steps to i + 1 whatever the update has removed
RECURSIVE animateLoop(_, _, _)
animateLoop(g, i, updated) ==
  IF i > Len(g.gameObjects) THEN [game |-> g, updated |-> updated]
  ELSE LET obj == g.gameObjects[i]
       IN animateLoop(IF obj = StarbaseObject THEN g ELSE ProtoEnemyUpdate(g, obj), i + 1, Append(updated, obj))

\* Game.animate(): the updates, then checkCollisions, in which at most one
\* projectile is within the size of an enemy
ProtoAnimate ==
  LET r == animateLoop(game2d, 1, <<>>)
  IN \E hit \in 0..Len(r.game.enemies) :
       /\ game2d' = IF hit = 0 THEN [r.game EXCEPT !.damage = NoDamage] ELSE takeDamage(r.game, hit, BASE_DAMAGE)
       /\ query' = [done |-> TRUE, before |-> game2d.gameObjects, updated |-> r.updated]
       /\ lastRemoval' = NoRemoval
       /\ UNCHANGED <<mainVars, entityVars, starbaseVars, economyVars, historyVars, game, platforms>>

NextAnimate ==
  \/ \E type \in DOMAIN ENEMY_TYPES : ProtoSpawn(type)
  \/ ProtoAnimate

SpecAnimate == Init /\ [][NextAnimate]_vars

\* number of times obj occurs in a list of objects
Occurrences(seq, obj) == Cardinality({k \in DOMAIN seq : seq[k] = obj})

\* C20: in a frame every object that was in the iterated collection when the
\* frame began is updated exactly once (in this loop an update removes only
\* its own object, so each object is still in the collection at its turn).
C20_UpdatedOnce ==
  query.done =>
    \A k \in DOMAIN query.before : Occurrences(query.updated, query.before[k]) = 1

\* ------------------------------------------------ specification SpecEscape
\* The game of Spec with the placement keys of main.js: placementActive is
\* placementState.active, which is all of the placement state that the
\* Escape listeners read.

\* keydown '1' or '2' while PLAYING: enterPlacementMode(type)
PlacementKey ==
  /\ currentState = GameState.PLAYING
  /\ placementActive' = TRUE
  /\ tick' = NoTick
  /\ UNCHANGED <<currentState, currentWave, enemiesSpawnedThisWave, enemiesToSpawnThisWave, spawnTimer, waveEnemyQueue, waveTransitionTimer, clock, entityVars, starbaseVars, economyVars, games, waveLog, simSinceShot, hitLog, otherVars>>

NextEscape ==
  \/ Next
  \/ PlacementKey

SpecEscape == Init /\ [][NextEscape]_vars

C21_EscapeStep == (placementActive /\ ~placementActive') => currentState' = currentState

\* C21: a press of Escape while the placement mode is active only leaves the
\* placement mode (the one step that does): the game state is what it was
\* before the key press, PLAYING and not PAUSED.
C21_EscapeOnlyExits == [][C21_EscapeStep]_vars

\* ------------------------------------------------- specification SpecMode
\* Game.findEnemyByTargetMode of the entity-class game, on registries in
\* which enemies that were destroyed are still listed (Game.update splices
\* them out only in its enemy loop, after Starbase.update has fired).
MaxModeEnemies == 2
TargetModes == {"closest", "highest-health", "farthest", "highest-armor", "lowest-armor"}

\* the callback of a reduce: does current replace the accumulated enemy
ModePrefers(mode, position, current, best) ==
  CASE mode = "highest-health" -> current.health > best.health
    [] mode = "farthest" -> distanceTo(position, current.pos) > distanceTo(position, best.pos)
    [] mode = "highest-armor" -> EntityEnemyConfig[current.type].armor > EntityEnemyConfig[best.type].armor
    [] OTHER -> EntityEnemyConfig[current.type].armor < EntityEnemyConfig[best.type].armor

\* this.enemies.reduce(callback, null): best is an index, 0 for null
RECURSIVE ModeReduce(_, _, _, _, _)
ModeReduce(es, i, best, mode, position) ==
  IF i > Len(es) THEN best
  ELSE ModeReduce(es, i + 1, IF best = 0 \/ (es[i].isAlive /\ ModePrefers(mode, position, es[i], es[best])) THEN i ELSE best, mode, position)

\* Game.findEnemyByTargetMode(targetMode)
findEnemyByTargetMode(es, position, cannonRange, targetMode) ==
  IF Len(es) = 0 THEN NoEnemy
  ELSE IF targetMode = "closest" THEN findClosestEnemy(es, position, TRUE, cannonRange)
  ELSE es[ModeReduce(es, 1, 0, targetMode, position)].id

\* an enemy in the list: untouched, hit once by the cannon, destroyed by
\* hits, or destroyed on reaching the planet (its health is then untouched)
ModeStates == {"alive", "damaged", "shot", "landed"}
ModeEnemy(id, type, position, state) ==
  [id |-> id, type |-> type, pos |-> position,
   health |-> CASE state = "damaged" -> EntityEnemyConfig[type].health - Max(1, CANNON_DAMAGE - EntityEnemyConfig[type].armor)
                [] state = "shot" -> EntityEnemyConfig[type].health - 3 * Max(1, CANNON_DAMAGE - EntityEnemyConfig[type].armor)
                [] OTHER -> EntityEnemyConfig[type].health,
   isAlive |-> state \in {"alive", "damaged"}]

ModeCells == {(STARBASE_ORBIT_RADIUS + 5) * EntityUnit, PLANET_RADIUS * EntityUnit}
ModeRegistries == UNION {{[i \in 1..n |-> ModeEnemy(i, f[i][1], f[i][2], f[i][3])] : f \in [1..n -> EntityTypes \X ModeCells \X ModeStates]} : n \in 0..MaxModeEnemies}

InitMode ==
  /\ ModularAtRest
  /\ game = NewGame
  /\ game2d = NewGame2d
  /\ platforms = <<>>
  /\ lastRemoval = NoRemoval
  /\ query \in {[done |-> FALSE, enemies |-> es, mode |-> mode, position |-> STARBASE_ORBIT_RADIUS * EntityUnit, range |-> CANNON_RANGE * EntityUnit, result |-> NoEnemy] : es \in ModeRegistries, mode \in TargetModes}

\* Starbase.fireMissile: this.game.findEnemyByTargetMode(targetMode)
ModeQuery ==
  /\ ~query.done
  /\ query' = [query EXCEPT !.done = TRUE, !.result = findEnemyByTargetMode(query.enemies, query.position, query.range, query.mode)]
  /\ UNCHANGED <<mainVars, entityVars, starbaseVars, economyVars, historyVars, game, game2d, platforms, lastRemoval>>

NextMode == ModeQuery

SpecMode == InitMode /\ [][NextMode]_vars

\* C22: for every target mode findEnemyByTargetMode returns null or an
\* enemy with isAlive = true, also when destroyed enemies are still listed.
C22_AliveTarget ==
  query.done =>
    \/ query.result = NoEnemy
    \/ \E i \in DOMAIN query.enemies :
         /\ query.enemies[i].id = query.result
         /\ query.enemies[i].isAlive


\* C23: at any time at most one animate callback is scheduled through
\* requestAnimationFrame, so update() runs at most once per display frame.
C23_SingleLoop ==
  /\ game.loops + game.frameQueue <= 1
  /\ Len(game.updates) <= 1


\* ------------------------------------------------- specification SpecBay
\* The launch bays of the entity-class game (entities.js LaunchBay and
\* FriendlyFighter; game.js clearEnemies, startNextLevel, resetGame).
\* Enemies and credits are left to the inputs of the actions.
MaxBays == 2
LAUNCH_RATE == 5
FIGHTER_HEALTH == 50
FIGHTER_DAMAGE == 20
LEVEL_COUNT == 5

\* new LaunchBay(...)
NewLaunchBay == [launchTimer |-> Num(0), hasFighter |-> FALSE]

\* LaunchBay.update(deltaTime), with launchFighter
LaunchBayUpdate(g, i, deltaTime) ==
  IF g.bays[i].hasFighter THEN g
  ELSE LET t == numAdd(g.bays[i].launchTimer, deltaTime)
       IN IF numGeq(t, Num(LAUNCH_RATE * Second))
         THEN [g EXCEPT !.bays[i] = [launchTimer |-> Num(0), hasFighter |-> TRUE],
                        !.friendlyFighters = Append(@, [bay |-> i, health |-> FIGHTER_HEALTH, isAlive |-> TRUE])]
         ELSE [g EXCEPT !.bays[i].launchTimer = t]

\* the launch-bay loop of Starbase.update
RECURSIVE updateLaunchBays(_, _, _)
updateLaunchBays(g, i, deltaTime) ==
  IF i > Len(g.bays) THEN g
  ELSE updateLaunchBays(LaunchBayUpdate(g, i, deltaTime), i + 1, deltaTime)

\* the friendly-fighter loop of Game.update: fighters that are no longer
\* alive leave the array
updateFriendlyFighters(g) ==
  [g EXCEPT !.friendlyFighters = SelectSeq(@, LAMBDA f : f.isAlive)]

\* Game.update(deltaTime); outcome is what the level and the enemies bring
\* about in this tick: the level is found complete (onLevelComplete), the
\* planet loses its last health (gameOver), or neither
bayGameUpdate(g, deltaTime, outcome) ==
  LET g1 == IF outcome = "none" THEN g
            ELSE [g EXCEPT !.isGameRunning = FALSE, !.screen = outcome]
  IN updateFriendlyFighters(updateLaunchBays(g1, 1, deltaTime))

\* FriendlyFighter.takeDamage(amount) of the k-th fighter of the array
friendlyTakeDamage(g, k, amount) ==
  LET health == g.friendlyFighters[k].health - amount
  IN IF health <= 0
     THEN [g EXCEPT !.friendlyFighters[k].health = health,
                    !.friendlyFighters[k].isAlive = FALSE,
                    !.bays[g.friendlyFighters[k].bay].hasFighter = FALSE]
     ELSE [g EXCEPT !.friendlyFighters[k].health = health]

\* Game.clearEnemies: the fighters are destroyed and the array is emptied;
\* no launch bay is told
clearEnemies(g) == [g EXCEPT !.friendlyFighters = <<>>]

\* Game.resetGame: createStarbase makes a starbase without launch bays
resetGame(g) == [clearEnemies(g) EXCEPT !.bays = <<>>]

\* Game.startNextLevel: Level.init, then animate() without a timestamp, whose
\* update receives NaN
startNextLevel(g) ==
  IF g.levelNumber < LEVEL_COUNT
  THEN bayGameUpdate([clearEnemies(g) EXCEPT !.levelNumber = @ + 1, !.isGameRunning = TRUE, !.screen = "none"], NaN, "none")
  ELSE [resetGame(g) EXCEPT !.screen = "start"]

\* Game.startGame: a new Level 1, Level.init, animate()
bayStartGame(g) ==
  bayGameUpdate([clearEnemies(g) EXCEPT !.levelNumber = 1, !.isGameRunning = TRUE, !.screen = "none"], NaN, "none")

\* the game after startGame on a fresh page
BayGame == [bays |-> <<>>, friendlyFighters |-> <<>>, isGameRunning |-> TRUE, levelNumber |-> 1, screen |-> "none"]

InitBay ==
  /\ ModularAtRest
  /\ game2d = NewGame2d
  /\ platforms = <<>>
  /\ query = NoQuery
  /\ lastRemoval = NoRemoval
  /\ game = BayGame

BayUnchanged == UNCHANGED <<mainVars, entityVars, starbaseVars, economyVars, historyVars, game2d, platforms, query, lastRemoval>>

\* a frame of animate while the game is running
BayTick ==
  /\ game.isGameRunning
  /\ \E d \in 0..MaxDelta, outcome \in {"none", "levelComplete", "gameOver"} : game' = bayGameUpdate(game, Num(d), outcome)
  /\ BayUnchanged

\* the launch-bay button of the upgrade panel, with credits for it
BuyLaunchBay ==
  /\ game.screen # "start"
  /\ Len(game.bays) < MaxBays
  /\ game' = [game EXCEPT !.bays = Append(@, NewLaunchBay)]
  /\ BayUnchanged

\* a friendly fighter takes damage
FighterTakeDamage ==
  /\ game.isGameRunning
  /\ \E k \in DOMAIN game.friendlyFighters, amount \in {FIGHTER_DAMAGE, FIGHTER_HEALTH} :
       /\ game.friendlyFighters[k].isAlive
       /\ game' = friendlyTakeDamage(game, k, amount)
  /\ BayUnchanged

\* the next-level button of the level-complete screen
NextLevelButton ==
  /\ game.screen = "levelComplete"
  /\ game' = startNextLevel(game)
  /\ BayUnchanged

\* the restart button of the game-over screen: resetGame, startGame
RestartButton ==
  /\ game.screen = "gameOver"
  /\ game' = bayStartGame(resetGame(game))
  /\ BayUnchanged

\* the start button of the start screen
BayStartButton ==
  /\ game.screen = "start"
  /\ game' = bayStartGame(game)
  /\ BayUnchanged

NextBay == BayTick \/ BuyLaunchBay \/ FighterTakeDamage \/ NextLevelButton \/ RestartButton \/ BayStartButton

SpecBay == InitBay /\ [][NextBay]_vars

\* the game keeps ticking: a running game gets its frames
SpecBayFair == SpecBay /\ WF_vars(BayTick)

BayHasLiveFighter(i) == \E k \in DOMAIN game.friendlyFighters : game.friendlyFighters[k].bay = i /\ game.friendlyFighters[k].isAlive
BayWithoutFighter(i) == i <= Len(game.bays) /\ game.isGameRunning /\ ~BayHasLiveFighter(i)
BayServed(i) == i > Len(game.bays) \/ ~game.isGameRunning \/ BayHasLiveFighter(i)

\* C24: whenever a bay's fighter is no longer in play (destroyed by damage
\* or removed by clearEnemies), the bay eventually launches a replacement:
\* while the game keeps ticking no bay stays without a live fighter.
C24_BayRelaunches == \A i \in 1..MaxBays : BayWithoutFighter(i) ~> BayServed(i)


\* the enemies of the level that are not eliminated: the queue of SpecEntity
\* is used up, so these are the enemies of the array that are alive
EnemiesNotEliminated == Cardinality({i \in DOMAIN game.enemies : game.enemies[i].isAlive})

\* C25: Level.remainingEnemies always equals the number of the level's
\* enemies not yet eliminated, is never negative, and is 0 when the level is
\* declared complete, whichever way an enemy was eliminated.
C25_RemainingEnemies ==
  /\ game.remainingEnemies = EnemiesNotEliminated
  /\ game.remainingEnemies >= 0
  /\ game.levelComplete => game.remainingEnemies = 0

C26_QueueState ==
  /\ enemiesSpawnedThisWave + Len(waveEnemyQueue) = enemiesToSpawnThisWave
  /\ (tick.completed \/ currentState = GameState.WAVE_COMPLETE) => Len(waveEnemyQueue) = 0

C26_QueueStep ==
  tick'.update =>
    /\ enemiesToSpawnThisWave' = enemiesToSpawnThisWave
    /\ \/ /\ waveEnemyQueue' = waveEnemyQueue
          /\ enemiesSpawnedThisWave' = enemiesSpawnedThisWave
       \/ /\ waveEnemyQueue # <<>>
          /\ waveEnemyQueue' = Tail(waveEnemyQueue)
          /\ enemiesSpawnedThisWave' = enemiesSpawnedThisWave + 1
          /\ \E e \in DOMAIN tick'.advanced : tick'.advanced[e].id = nextId /\ tick'.advanced[e].type = Head(waveEnemyQueue).type

\* C26: in the modular game enemiesSpawnedThisWave + waveEnemyQueue.length =
\* enemiesToSpawnThisWave after every tick; a tick spawns at most one enemy,
\* the head of the queue, which it removes; and the wave is not declared
\* complete while the queue is non-empty.
C26_SpawnQueue == [](C26_QueueState) /\ [][C26_QueueStep]_vars

\* a tick has just spawned an enemy in the middle of a wave
C26_Witness ==
  /\ tick.update
  /\ enemiesSpawnedThisWave >= 1
  /\ waveEnemyQueue # <<>>
  /\ spawnTimer = 0
  /\ \E e \in DOMAIN tick.advanced : tick.advanced[e].id = nextId - 1
====
